---- MODULE Spec2Model ----
(***************************************************************************)
(* Word-timing engine of src/audio/tts.py (class TextToSpeech):            *)
(*   _generate_approximate_word_timings  (estimate)                        *)
(*   _expand_numeric_references          (expand)                          *)
(*   _fix_reference_order                (correct)                         *)
(* and the fallback path of _generate_speech_elevenlabs that chains them,   *)
(* then generate_speech with the cache it keeps: _get_cache_key,           *)
(* _get_cached_audio, _cache_audio, the two provider branches and the      *)
(* audio files and tts_cache.json they leave on disk.                      *)
(* Image generation of src/media/gemini_client.py (class GeminiClient):    *)
(*   _generate_with_gemini_multimodal, in test mode and with its retry     *)
(*   loop around the backend call.                                         *)
(*                                                                         *)
(* Strings are sequences of one-character strings, so that split, strip,   *)
(* startswith, find and the three regular expressions are computed         *)
(* character by character as Python computes them.  Whitespace is the      *)
(* space character.  Python floats are modelled by exact rationals         *)
(* <<numerator, denominator>> in lowest terms: rounding error is not       *)
(* modelled, the overflow of float() to infinity is.                       *)
(***************************************************************************)
EXTENDS Integers, Sequences, FiniteSets, TLC

VARIABLES
    text,                 \* the text handed to the timing engine
    duration,             \* the audio duration in seconds (a rational)
    approximate_timings,  \* result of _generate_approximate_word_timings
    expanded_timings,     \* result of _expand_numeric_references
    origin,               \* for each expanded token, the input indices <<i, j>> it derives from
    word_timings,         \* result of _fix_reference_order
    raised,               \* "none", or the exception that ended the request
    pc,                   \* the step of the request that runs next
    provider_name,        \* self.provider_name
    api_key,              \* self.api_key
    available_voices,     \* self.available_voices
    cache,                \* self.cache: cache key -> entry
    cache_file,           \* the content of tts_cache.json
    files,                \* the paths of the audio files on disk
    clock,                \* int(time.time())
    requests,             \* the generate_speech calls: their locals and position
    synthesized,          \* history: cache key -> the path its last successful
                          \* synthesis stored, until that file is deleted
    gemini                \* a _generate_with_gemini_multimodal call of a
                          \* GeminiClient: its parameters, locals and position

timing_vars == <<text, duration, approximate_timings, expanded_timings, origin,
                 word_timings, raised, pc>>

tts_vars == <<provider_name, api_key, available_voices, cache, cache_file,
              files, clock, requests, synthesized>>

gemini_vars == <<gemini>>

vars == <<timing_vars, tts_vars, gemini_vars>>

(***************************************************************************)
(* Bounds of the model.                                                    *)
(***************************************************************************)
MaxWords == 3
MaxTokens == 3

(***************************************************************************)
(* Exact rationals standing for Python floats.                             *)
(***************************************************************************)
Abs(x) == IF x < 0 THEN -x ELSE x

RECURSIVE GCD(_, _)
GCD(a, b) == IF b = 0 THEN a ELSE GCD(b, a % b)

Rat(n, d) ==
    LET g == GCD(Abs(n), Abs(d))
        s == IF d < 0 THEN -1 ELSE 1
    IN  <<(s * n) \div g, (s * d) \div g>>

RAdd(a, b) == Rat(a[1] * b[2] + b[1] * a[2], a[2] * b[2])
RSub(a, b) == Rat(a[1] * b[2] - b[1] * a[2], a[2] * b[2])
RMul(a, b) == Rat(a[1] * b[1], a[2] * b[2])
RDiv(a, b) == Rat(a[1] * b[2], a[2] * b[1])
RLe(a, b) == a[1] * b[2] <= b[1] * a[2]
RLt(a, b) == a[1] * b[2] < b[1] * a[2]
RMin(a, b) == IF RLe(a, b) THEN a ELSE b
RMax(a, b) == IF RLe(b, a) THEN a ELSE b
RAbs(a) == <<Abs(a[1]), a[2]>>
RInt(n) == <<n, 1>>

RECURSIVE RSum(_)
RSum(s) == IF s = <<>> THEN RInt(0) ELSE RAdd(Head(s), RSum(Tail(s)))

(***************************************************************************)
(* Python string operations on character sequences.                        *)
(***************************************************************************)
Digits == <<"0", "1", "2", "3", "4", "5", "6", "7", "8", "9">>

IsDigit(c) == \E k \in 1..10 : Digits[k] = c
DigitValue(c) == (CHOOSE k \in 1..10 : Digits[k] = c) - 1
DigitChar(n) == Digits[n + 1]

IsSpace(c) == c = " "
Contains(s, c) == \E k \in 1..Len(s) : s[k] = c

\* str.startswith(prefix)
StartsWith(s, prefix) ==
    /\ Len(prefix) <= Len(s)
    /\ SubSeq(s, 1, Len(prefix)) = prefix

\* str.find(sub): the 0-based index of the first occurrence, -1 if none
Find(s, sub) ==
    LET hits == {k \in 1..(Len(s) - Len(sub) + 1) : SubSeq(s, k, k + Len(sub) - 1) = sub}
    IN  IF hits = {} THEN -1
        ELSE (CHOOSE k \in hits : \A m \in hits : k <= m) - 1

\* str.split(): the maximal runs of non-whitespace characters, in order
WordStarts(s) ==
    {i \in 1..Len(s) : ~IsSpace(s[i]) /\ (i = 1 \/ IsSpace(s[i - 1]))}

WordEnd(s, i) ==
    CHOOSE j \in i..Len(s) :
        /\ \A m \in i..j : ~IsSpace(s[m])
        /\ (j = Len(s) \/ IsSpace(s[j + 1]))

Split(s) ==
    [k \in 1..Cardinality(WordStarts(s)) |->
        LET i == CHOOSE x \in WordStarts(s) :
                     Cardinality({m \in WordStarts(s) : m <= x}) = k
        IN  SubSeq(s, i, WordEnd(s, i))]

\* ' '.join(words)
RECURSIVE Join(_)
Join(words) ==
    IF words = <<>> THEN <<>>
    ELSE IF Len(words) = 1 THEN words[1]
    ELSE words[1] \o <<" ">> \o Join(Tail(words))

\* str.strip(): leading and trailing whitespace removed
RECURSIVE LStrip(_, _)
LStrip(s, c) == IF s # <<>> /\ s[1] = c THEN LStrip(Tail(s), c) ELSE s

RECURSIVE RStrip(_, _)
RStrip(s, c) ==
    IF s # <<>> /\ s[Len(s)] = c THEN RStrip(SubSeq(s, 1, Len(s) - 1), c) ELSE s

\* str.strip(c) for a single character c
StripChar(s, c) == RStrip(LStrip(s, c), c)
Strip(s) == StripChar(s, " ")

\* a non-empty run of digits: \d+ anchored at both ends
AllDigits(s) == s # <<>> /\ \A k \in 1..Len(s) : IsDigit(s[k])

\* verse_reference_pattern.match(word): ^\d+:\d+(-\d+)?$
IsVerseReference(word) ==
    \E c \in 1..Len(word) :
        /\ word[c] = ":"
        /\ AllDigits(SubSeq(word, 1, c - 1))
        /\ LET rest == SubSeq(word, c + 1, Len(word))
           IN  \/ AllDigits(rest)
               \/ \E h \in 1..Len(rest) :
                      /\ rest[h] = "-"
                      /\ AllDigits(SubSeq(rest, 1, h - 1))
                      /\ AllDigits(SubSeq(rest, h + 1, Len(rest)))

\* numeric_pattern.match(word): ^\d+(\.\d+)?$
IsNumeric(word) ==
    \/ AllDigits(word)
    \/ \E p \in 1..Len(word) :
           /\ word[p] = "."
           /\ AllDigits(SubSeq(word, 1, p - 1))
           /\ AllDigits(SubSeq(word, p + 1, Len(word)))

\* the position of the first ")" after position p, 0 if there is none
FirstClose(s, p) ==
    LET cl == {q \in (p + 1)..Len(s) : s[q] = ")"}
    IN  IF cl = {} THEN 0 ELSE CHOOSE q \in cl : \A r \in cl : q <= r

\* \([^)]*\d+:\d+[^)]*\) matches at position p (it then ends at the first ")")
CitationAt(s, p) ==
    /\ s[p] = "("
    /\ FirstClose(s, p) # 0
    /\ \E k \in (p + 1)..(FirstClose(s, p) - 3) :
           IsDigit(s[k]) /\ s[k + 1] = ":" /\ IsDigit(s[k + 2])

\* citation_pattern.search(s)
CitationSearch(s) == \E p \in 1..Len(s) : CitationAt(s, p)

\* re.findall(pattern, s): the leftmost non-overlapping matches, in order
RECURSIVE FindAllFrom(_, _)
FindAllFrom(s, p) ==
    LET hits == {q \in p..Len(s) : CitationAt(s, q)}
        q == CHOOSE x \in hits : \A y \in hits : x <= y
    IN  IF hits = {} THEN <<>>
        ELSE <<SubSeq(s, q, FirstClose(s, q))>> \o FindAllFrom(s, FirstClose(s, q) + 1)

FindAllCitations(s) == FindAllFrom(s, 1)

(***************************************************************************)
(* _generate_approximate_word_timings(text, duration)                      *)
(***************************************************************************)
Clamp(lo, hi, x) == RMax(lo, RMin(hi, x))

\* the weight of one word: the three branches of the first pass
word_length_factor(word) ==
    LET base_factor == Rat(Len(word), 5)
    IN  IF IsVerseReference(word)
        THEN Clamp(Rat(1, 2), RInt(4), RMul(base_factor, RInt(3)))
        ELSE IF IsNumeric(word)
        THEN Clamp(Rat(1, 2), RInt(3), RMul(base_factor, RInt(2)))
        ELSE Clamp(Rat(1, 2), RInt(2), base_factor)

\* the indices of verse references and standalone numbers
special_case_indices(words) ==
    {i \in 1..Len(words) : IsVerseReference(words[i]) \/ IsNumeric(words[i])}

\* first pass: weight times the average word duration
initial_durations(words, d) ==
    LET avg_word_duration == RDiv(d, RInt(Len(words)))
    IN  [i \in 1..Len(words) |-> RMul(word_length_factor(words[i]), avg_word_duration)]

\* the scaling applied to the regular words only, the special cases keeping
\* their first-pass durations
adjusted_durations_regular_only(words, durations, d) ==
    LET total_duration == RSum(durations)
    IN  IF /\ special_case_indices(words) # {}
           /\ Len(words) > Cardinality(special_case_indices(words))
           /\ RLt(d, total_duration)
        THEN [i \in 1..Len(words) |->
                 IF i \in special_case_indices(words) THEN durations[i]
                 ELSE RMul(durations[i], RDiv(d, total_duration))]
        ELSE durations

\* the durations scaled down when special cases make them exceed the total
adjusted_durations(words, durations, d) ==
    LET total_duration == RSum(durations)
    IN  IF /\ special_case_indices(words) # {}
           /\ Len(words) > Cardinality(special_case_indices(words))
           /\ RLt(d, total_duration)
        THEN [i \in 1..Len(words) |-> RMul(durations[i], RDiv(d, total_duration))]
        ELSE durations

\* second pass: each word starts where the previous one ended
cumulative_timings(words, durations) ==
    [i \in 1..Len(words) |->
        LET current_time == RSum(SubSeq(durations, 1, i - 1))
        IN  <<words[i], current_time, RAdd(current_time, durations[i])>>]

\* the final normalisation to the audio duration, with its 0.01 tolerance
NormalizeSkipped(timings, d) == timings

normalize_timings(timings, d) ==
    IF timings = <<>> THEN timings
    ELSE LET last_word_end == timings[Len(timings)][3]
         IN  IF RLt(Rat(1, 100), RAbs(RSub(last_word_end, d)))
             THEN LET scale_factor == RDiv(d, last_word_end)
                  IN  [i \in 1..Len(timings) |->
                          <<timings[i][1],
                            RMul(timings[i][2], scale_factor),
                            RMul(timings[i][3], scale_factor)>>]
             ELSE timings

generate_approximate_word_timings(t, d) ==
    LET words == Split(t)
    IN  IF words = <<>> THEN <<>>
        ELSE normalize_timings(
                 cumulative_timings(words,
                     adjusted_durations(words, initial_durations(words, d), d)),
                 d)

(***************************************************************************)
(* _expand_numeric_references(word_timings)                                *)
(***************************************************************************)
\* float(word) of a numeral is infinite when its value is at least
\* 2^1024 - 2^970, a number of FloatMaxDigits digits; int() of it raises.
FloatMaxDigits == 309

FloatOverflowThreshold ==
    <<
           1, 7, 9, 7, 6, 9, 3, 1, 3, 4, 8, 6, 2, 3, 1, 5, 8, 0, 7, 9, 3, 7, 2, 8, 9, 7, 1, 4, 0, 5,
           3, 0, 3, 4, 1, 5, 0, 7, 9, 9, 3, 4, 1, 3, 2, 7, 1, 0, 0, 3, 7, 8, 2, 6, 9, 3, 6, 1, 7, 3,
           7, 7, 8, 9, 8, 0, 4, 4, 4, 9, 6, 8, 2, 9, 2, 7, 6, 4, 7, 5, 0, 9, 4, 6, 6, 4, 9, 0, 1, 7,
           9, 7, 7, 5, 8, 7, 2, 0, 7, 0, 9, 6, 3, 3, 0, 2, 8, 6, 4, 1, 6, 6, 9, 2, 8, 8, 7, 9, 1, 0,
           9, 4, 6, 5, 5, 5, 5, 4, 7, 8, 5, 1, 9, 4, 0, 4, 0, 2, 6, 3, 0, 6, 5, 7, 4, 8, 8, 6, 7, 1,
           5, 0, 5, 8, 2, 0, 6, 8, 1, 9, 0, 8, 9, 0, 2, 0, 0, 0, 7, 0, 8, 3, 8, 3, 6, 7, 6, 2, 7, 3,
           8, 5, 4, 8, 4, 5, 8, 1, 7, 7, 1, 1, 5, 3, 1, 7, 6, 4, 4, 7, 5, 7, 3, 0, 2, 7, 0, 0, 6, 9,
           8, 5, 5, 5, 7, 1, 3, 6, 6, 9, 5, 9, 6, 2, 2, 8, 4, 2, 9, 1, 4, 8, 1, 9, 8, 6, 0, 8, 3, 4,
           9, 3, 6, 4, 7, 5, 2, 9, 2, 7, 1, 9, 0, 7, 4, 1, 6, 8, 4, 4, 4, 3, 6, 5, 5, 1, 0, 7, 0, 4,
           3, 4, 2, 7, 1, 1, 5, 5, 9, 6, 9, 9, 5, 0, 8, 0, 9, 3, 0, 4, 2, 8, 8, 0, 1, 7, 7, 9, 0, 4,
           1, 7, 4, 4, 9, 7, 7, 9, 2>>

\* the digits before the decimal point, without leading zeros
integer_digits(word) ==
    LET dots == {p \in 1..Len(word) : word[p] = "."}
        whole == IF dots = {} THEN word
                 ELSE SubSeq(word, 1, (CHOOSE p \in dots : TRUE) - 1)
    IN  LStrip(whole, "0")

\* digit sequence a is at least digit sequence b of the same length
RECURSIVE DigitsGeq(_, _, _)
DigitsGeq(a, b, k) ==
    IF k > Len(a) THEN TRUE
    ELSE IF DigitValue(a[k]) > b[k] THEN TRUE
    ELSE IF DigitValue(a[k]) < b[k] THEN FALSE
    ELSE DigitsGeq(a, b, k + 1)

float_overflows(word) ==
    LET ds == integer_digits(word)
    IN  \/ Len(ds) > FloatMaxDigits
        \/ Len(ds) = FloatMaxDigits /\ DigitsGeq(ds, FloatOverflowThreshold, 1)

\* int(float(word)): the integer part; values of NumCap and more are all
\* represented by NumCap (the code only compares num with 20 and 100)
NumCap == 1000

RECURSIVE digits_value(_, _)
digits_value(ds, acc) ==
    IF ds = <<>> THEN acc
    ELSE IF acc * 10 + DigitValue(Head(ds)) >= NumCap THEN NumCap
    ELSE digits_value(Tail(ds), acc * 10 + DigitValue(Head(ds)))

int_of_float(word) == digits_value(integer_digits(word), 0)

\* the inner while loop: the first index from j on whose word contains ")",
\* Len(timings) + 1 when the loop runs off the end
RECURSIVE citation_scan(_, _)
citation_scan(timings, j) ==
    IF j > Len(timings) THEN j
    ELSE IF Contains(timings[j][1], ")") THEN j
    ELSE citation_scan(timings, j + 1)

\* ' '.join(part[0] for part in citation_parts)
citation_text(timings, i, j) == Join([k \in 1..(j - i + 1) |-> timings[i + k - 1][1]])

\* a complete citation starts at index i
is_citation_block(timings, i) ==
    /\ Contains(timings[i][1], "(")
    /\ citation_scan(timings, i) <= Len(timings)
    /\ CitationSearch(citation_text(timings, i, citation_scan(timings, i)))

merged_citation_first_end(timings, i, j) ==
    <<citation_text(timings, i, j), timings[i][2], timings[i][3]>>

\* the citation added as one unit
merged_citation(timings, i, j) ==
    <<citation_text(timings, i, j), timings[i][2], timings[j][3]>>

split_interval_same_share(first, second, start_time, end_time) ==
    LET first_duration == RMul(RSub(end_time, start_time), Rat(3, 5))
    IN  << <<first, start_time, RAdd(start_time, first_duration)>>,
           <<second, RAdd(start_time, first_duration),
             RAdd(RAdd(start_time, first_duration), first_duration)>> >>

split_interval_overlong(first, second, start_time, end_time) ==
    LET first_duration == RMul(RSub(end_time, start_time), Rat(8, 5))
    IN  << <<first, start_time, RAdd(start_time, first_duration)>>,
           <<second, RAdd(start_time, first_duration), end_time>> >>

split_interval_even(first, second, start_time, end_time) ==
    LET first_duration == RMul(RSub(end_time, start_time), Rat(1, 2))
    IN  << <<first, start_time, RAdd(start_time, first_duration)>>,
           <<second, RAdd(start_time, first_duration), end_time>> >>

\* the two tokens of a 60%/40% split of [start_time, end_time]
split_interval(first, second, start_time, end_time) ==
    LET first_duration == RMul(RSub(end_time, start_time), Rat(3, 5))
    IN  << <<first, start_time, RAdd(start_time, first_duration)>>,
           <<second, RAdd(start_time, first_duration), end_time>> >>

split_verse_reference_at_dash(word, start_time, end_time) ==
    LET seps == {p \in 1..Len(word) : word[p] \in {":", "-"}}
        c == CHOOSE p \in seps : \A q \in seps : q <= p
    IN  << <<SubSeq(word, 1, c - 1), start_time,
             RAdd(start_time, RMul(RSub(end_time, start_time), Rat(3, 5)))>>,
           <<SubSeq(word, c + 1, Len(word)),
             RAdd(start_time, RMul(RSub(end_time, start_time), Rat(3, 5))), end_time>> >>

\* a verse reference: chapter and verse (or verse range), both branches alike
split_verse_reference(word, start_time, end_time) ==
    LET c == CHOOSE p \in 1..Len(word) : word[p] = ":"
        chapter == SubSeq(word, 1, c - 1)
        verse == SubSeq(word, c + 1, Len(word))
    IN  split_interval(chapter, verse, start_time, end_time)

in_compound_range_from_ten(num) == 10 < num /\ num < 100

\* 20 < num < 100
in_compound_range(num) == 20 < num /\ num < 100

\* a numeral of more than one character
split_numeric(word, start_time, end_time) ==
    LET num == int_of_float(word)
        tens_digit == num \div 10
        ones_digit == num % 10
    IN  IF in_compound_range(num)
        THEN IF ones_digit > 0
             THEN split_interval(<<DigitChar(tens_digit), "0">>, <<DigitChar(ones_digit)>>,
                                 start_time, end_time)
             ELSE << <<(<<DigitChar(tens_digit), "0">>), start_time, end_time>> >>
        ELSE << <<word, start_time, end_time>> >>

\* the while loop over the input; org records, for each token appended, the
\* input indices <<i, j>> it was made from
RECURSIVE expand_loop(_, _, _, _)
expand_loop(timings, i, acc, org) ==
    IF i > Len(timings)
    THEN [raised |-> "none", timings |-> acc, origin |-> org]
    ELSE LET word == timings[i][1]
             start_time == timings[i][2]
             end_time == timings[i][3]
             j == citation_scan(timings, i)
         IN  IF is_citation_block(timings, i)
             THEN expand_loop(timings, j + 1,
                              Append(acc, merged_citation(timings, i, j)),
                              Append(org, <<i, j>>))
             ELSE IF IsVerseReference(word)
             THEN expand_loop(timings, i + 1,
                              acc \o split_verse_reference(word, start_time, end_time),
                              org \o << <<i, i>>, <<i, i>> >>)
             ELSE IF IsNumeric(word) /\ Len(word) > 1
             THEN IF float_overflows(word)
                  THEN [raised |-> "OverflowError", timings |-> acc, origin |-> org]
                  ELSE LET out == split_numeric(word, start_time, end_time)
                       IN  expand_loop(timings, i + 1, acc \o out,
                                       org \o [k \in 1..Len(out) |-> <<i, i>>])
             ELSE expand_loop(timings, i + 1, Append(acc, timings[i]), Append(org, <<i, i>>))

expand_numeric_references(timings) == expand_loop(timings, 1, <<>>, <<>>)

(***************************************************************************)
(* _fix_reference_order(original_text, word_timings)                       *)
(***************************************************************************)
Min(a, b) == IF a <= b THEN a ELSE b

words_of(timings) == [k \in 1..Len(timings) |-> timings[k][1]]

\* "reference appears in the first 3 words but not at the beginning of
\* original text"
detected_misplaced(original_text, words, ref) ==
    LET ref_parts == Split(ref)
    IN  /\ \E k \in 1..Min(3, Len(words)) :
               StartsWith(words[k], StripChar(ref_parts[1], "("))
        /\ ~StartsWith(Strip(original_text), ref_parts[1])

\* the for loop over the words: 0-based ref_start and ref_end, -1 if not found
find_ref_start(words, ref) ==
    LET prefix == StripChar(Split(ref)[1], "(")
        hits == {i \in 1..(Len(words) - 1) : StartsWith(words[i + 1], prefix)}
    IN  IF hits = {} THEN -1 ELSE CHOOSE i \in hits : \A m \in hits : i <= m

find_ref_end(words, ref_start) ==
    LET hits == {i \in ref_start..(Len(words) - 1) : Contains(words[i + 1], ")")}
    IN  IF ref_start = -1 \/ hits = {} THEN -1
        ELSE CHOOSE i \in hits : \A m \in hits : i <= m

\* the splice with ref_timings = word_timings[ref_start:ref_end], which leaves
\* out the last token of the run
move_reference_short_slice(timings, ref_start, ref_end, target_position) ==
    LET ref_timings == SubSeq(timings, ref_start + 1, ref_end)
        new_timings == SubSeq(timings, 1, ref_start)
                         \o SubSeq(timings, ref_end + 2, Len(timings))
        target == Min(target_position, Len(new_timings))
    IN  SubSeq(new_timings, 1, target) \o ref_timings
          \o SubSeq(new_timings, target + 1, Len(new_timings))

\* the reference run removed and inserted at the clamped target position
move_reference(timings, ref_start, ref_end, target_position) ==
    LET ref_timings == SubSeq(timings, ref_start + 1, ref_end + 1)
        new_timings == SubSeq(timings, 1, ref_start)
                         \o SubSeq(timings, ref_end + 2, Len(timings))
        target == Min(target_position, Len(new_timings))
    IN  SubSeq(new_timings, 1, target) \o ref_timings
          \o SubSeq(new_timings, target + 1, Len(new_timings))

\* the for loop over the references: the first one that can be moved is
RECURSIVE fix_loop(_, _, _, _)
fix_loop(original_text, timings, refs, r) ==
    IF r > Len(refs) THEN timings
    ELSE LET ref == refs[r]
             words == words_of(timings)
             ref_pos_in_text == Find(original_text, ref)
             target_position == Len(Split(SubSeq(original_text, 1, ref_pos_in_text)))
             ref_start == find_ref_start(words, ref)
             ref_end == find_ref_end(words, ref_start)
         IN  IF /\ detected_misplaced(original_text, words, ref)
                /\ ref_pos_in_text > 0
                /\ ref_start # -1
                /\ ref_end # -1
             THEN move_reference(timings, ref_start, ref_end, target_position)
             ELSE fix_loop(original_text, timings, refs, r + 1)

fix_reference_order(original_text, timings) ==
    LET parenthetical_refs == FindAllCitations(original_text)
    IN  IF parenthetical_refs = <<>> THEN timings
        ELSE fix_loop(original_text, timings, parenthetical_refs, 1)

(***************************************************************************)
(* The cache key.  hashlib.md5 is taken to be injective on the key strings *)
(* that occur: a key is represented by the data its string is built from.  *)
(***************************************************************************)
\* the characters that str.lower() changes, and the order of the characters
\* that occur in parameter names and voice names, by character code
UpperChars == <<"A", "B", "C", "D", "E", "F", "G", "H", "I", "J", "K", "L", "M", "N", "O", "P", "Q", "R", "S", "T", "U", "V", "W", "X", "Y", "Z">>
LowerChars == <<"a", "b", "c", "d", "e", "f", "g", "h", "i", "j", "k", "l", "m", "n", "o", "p", "q", "r", "s", "t", "u", "v", "w", "x", "y", "z">>
CharOrder == UpperChars \o <<"_">> \o LowerChars

\* str.lower()
LowerChar(c) ==
    IF \E k \in 1..26 : UpperChars[k] = c
    THEN LowerChars[CHOOSE k \in 1..26 : UpperChars[k] = c]
    ELSE c

Lower(s) == [k \in 1..Len(s) |-> LowerChar(s[k])]

\* the order of str: lexicographic by character code
CharRank(c) == CHOOSE k \in 1..Len(CharOrder) : CharOrder[k] = c

RECURSIVE StrLess(_, _)
StrLess(a, b) ==
    IF b = <<>> THEN FALSE
    ELSE IF a = <<>> THEN TRUE
    ELSE IF a[1] = b[1] THEN StrLess(Tail(a), Tail(b))
    ELSE CharRank(a[1]) < CharRank(b[1])

\* a settings dict is the sequence of its <<name, value>> items in insertion
\* order; json.dumps(settings) writes the items in that order
json_dumps(settings) == settings

\* json.dumps(settings, sort_keys=True) writes them in the order of the names
json_dumps_sorted(settings) ==
    [k \in 1..Len(settings) |->
        settings[CHOOSE i \in 1..Len(settings) :
                     Cardinality({m \in 1..Len(settings) :
                                     StrLess(settings[m][1], settings[i][1])}) = k - 1]]

\* _get_cache_key(text, voice, settings) of a TextToSpeech of the provider
get_cache_key(provider, t, voice, settings) ==
    LET normalized == Join(Split(Lower(Strip(t))))
        voice_key == Lower(Strip(voice))
    IN  IF settings # <<>>
        THEN <<provider, normalized, voice_key, json_dumps_sorted(settings)>>
        ELSE <<provider, normalized, voice_key>>

(***************************************************************************)
(* Voices, voice settings and content types.                               *)
(***************************************************************************)
Daniel == <<"D", "a", "n", "i", "e", "l">>
Rachel == <<"R", "a", "c", "h", "e", "l">>
Adam == <<"A", "d", "a", "m">>

stability == <<"s", "t", "a", "b", "i", "l", "i", "t", "y">>
similarity_boost == <<"s", "i", "m", "i", "l", "a", "r", "i", "t", "y", "_", "b", "o", "o", "s", "t">>
style == <<"s", "t", "y", "l", "e">>
use_speaker_boost == <<"u", "s", "e", "_", "s", "p", "e", "a", "k", "e", "r", "_", "b", "o", "o", "s", "t">>

\* self.voice_settings[content_type]["voice_settings"], items in source order
voice_settings(content_type) ==
    CASE content_type = "narrative" ->
           <<<<stability, "0.7">>, <<similarity_boost, "0.8">>,
             <<style, "0.65">>, <<use_speaker_boost, "true">>>>
      [] content_type = "descriptive" ->
           <<<<stability, "0.85">>, <<similarity_boost, "0.7">>,
             <<style, "0.35">>, <<use_speaker_boost, "true">>>>
      [] content_type = "dialogue" ->
           <<<<stability, "0.6">>, <<similarity_boost, "0.9">>,
             <<style, "0.8">>, <<use_speaker_boost, "true">>>>

\* marker in text
Has(s, sub) == Find(s, sub) >= 0

DescriptiveMarkers ==
    {<<"s", "c", "e", "n", "e">>,
     <<"v", "i", "s", "u", "a", "l">>,
     <<"w", "e", " ", "s", "e", "e">>,
     <<"c", "a", "m", "e", "r", "a", " ", "s", "h", "o", "w", "s">>}

DialogueMarkers ==
    {<<"\"">>, <<"'">>, <<":">>,
     <<"s", "a", "y", "s">>,
     <<"e", "x", "c", "l", "a", "i", "m", "s">>,
     <<"a", "s", "k", "s">>}

\* _detect_content_type(text)
detect_content_type(t) ==
    IF \E marker \in DescriptiveMarkers : Has(Lower(t), marker) THEN "descriptive"
    ELSE IF \E marker \in DialogueMarkers : Has(t, marker) THEN "dialogue"
    ELSE "narrative"

\* UnrealSpeechProvider.map_voice_settings: the provider's mapping table is
\* not part of this source; the key only needs it to be a function
map_voice_settings(elevenlabs_settings) == elevenlabs_settings

\* the voice catalogs: the two test voices of a test key, and catalogs a real
\* key may list, with and without a voice named Daniel
TestVoices ==
    <<[name |-> Daniel, voice_id |-> "test_daniel"],
      [name |-> Rachel, voice_id |-> "test_rachel"]>>

RealCatalogs ==
    {<<[name |-> Rachel, voice_id |-> "id_rachel"],
       [name |-> Daniel, voice_id |-> "id_daniel"]>>,
     <<[name |-> Rachel, voice_id |-> "id_rachel"],
       [name |-> Adam, voice_id |-> "id_adam"]>>}

\* self.available_voice_names = sorted([v.name for v in self.available_voices])
available_voice_names(voices) ==
    [k \in 1..Len(voices) |->
        voices[CHOOSE i \in 1..Len(voices) :
                   Cardinality({m \in 1..Len(voices) :
                                   StrLess(voices[m].name, voices[i].name)}) = k - 1].name]

\* self.default_voice after _init_elevenlabs or _init_unrealspeech: Daniel,
\* or the first of the sorted names if no voice has that name
default_voice(voices) ==
    IF \E k \in 1..Len(voices) : voices[k].name = Daniel
    THEN Daniel
    ELSE available_voice_names(voices)[1]

\* "test" in self.api_key.lower()
IsTestKey(key) == Has(Lower(key), <<"t", "e", "s", "t">>)

\* voice_id.startswith("test_")
IsTestVoiceId(voice_id) == voice_id \in {"test_daniel", "test_rachel"}

ApiKeys == {<<"T", "E", "S", "T", "_", "k">>, <<"s", "k", "_", "1">>}

\* the loop of lines 399-403: the first voice of that name, compared in lower
\* case; the result is the sequence of 0 or 1 voices found
find_voice(voices, voice_name) ==
    LET hits == {k \in 1..Len(voices) : Lower(voices[k].name) = Lower(voice_name)}
    IN  IF hits = {} THEN <<>>
        ELSE <<voices[CHOOSE k \in hits : \A m \in hits : k <= m]>>

(***************************************************************************)
(* Inputs.                                                                 *)
(***************************************************************************)
\* a numeral too long for float(): FloatMaxDigits + 1 digits
HugeNumeral == [k \in 1..(FloatMaxDigits + 1) |-> "1"]

\* the words texts are built from: ordinary words of several lengths,
\* numerals, verse references and the two halves of a citation
TextWords ==
    {<<"a">>,
     <<"c", "l", "e", "a", "r", "l", "y">>,
     <<"t", "r", "a", "n", "s", "l", "a", "t", "i", "o", "n", "s">>,
     <<"7", "3">>,
     <<"1", "2", "3", "4", "5", "6", "7", "8">>,
     <<"7", ":", "2", "8">>,
     <<"1", "1", "4", ":", "1", "-", "6">>,
     <<"(", "b">>,
     <<"7", ":", "2", "8", ")">>}

\* the sentences of the documented examples, and texts with a citation
\* after two or more words, a repeated word, irregular spacing, a long
\* numeral, two citations, and the texts without any token: empty and
\* whitespace only
SampleTexts ==
    {<<"7", "3">>,
     <<"S", "e", "e", " ", "(", "A", "l", "-", "A", "'", "r", "a", "f", " ", "7", ":", "2", "8", ")", " ", "f", "o", "r", " ", "d", "e", "t", "a", "i", "l", "s">>,
     <<"T", "h", "e", " ", "v", "e", "r", "s", "e", " ", "(", "A", "l", "-", "A", "'", "r", "a", "f", " ", "7", ":", "2", "8", ")", " ", "s", "t", "a", "t", "e", "s", " ", "c", "l", "e", "a", "r", "l", "y", " ", "t", "h", "a", "t">>,
     <<"a", " ", "b", " ", "(", " ", "7", ":", "2", "8", ")", " ", "c">>,
     <<"S", "e", "e", " ", "A", "l", "-", "A", "r", "a", "f", " ", "(", "A", "l", "-", "A", "r", "a", "f", " ", "7", ":", "2", "8", ")", " ", "n", "o", "w">>,
     <<" ", "a", " ", " ", "8", "0", ".", "5", " ">>,
     <<"n", "o", " ">> \o HugeNumeral,
     <<"b", " ", "(", "b", " ", "1", ":", "2", ")", " ", "(", " ", "3", ":", "4", ")">>,
     <<>>,
     <<" ", " ">>}

SeqsUpTo(S, n) == UNION {[1..k -> S] : k \in 1..n}

Texts == {Join(ws) : ws \in SeqsUpTo(TextWords, MaxWords)} \cup SampleTexts

\* audio durations in seconds: 0.01, 1, 4 and 5
Durations == {Rat(1, 100), RInt(1), RInt(4), RInt(5)}

\* the words of the timing sequences handed to expand directly
ExpandWords ==
    {<<"a">>,
     <<"(", "b">>,
     <<"7", ":", "2", "8", ")">>,
     <<"(", "7", ":", "2", "8", ")">>,
     <<"7", ":", "2", "8">>,
     <<"9", ":", "1", "-", "2">>,
     <<"5">>,
     <<"1", "5">>,
     <<"2", "0">>,
     <<"7", "3">>,
     <<"8", "0">>,
     <<"9", "9">>,
     <<"1", "0", "0">>,
     <<"0", "8", "0">>}

\* the raw tokens of "See (Al-A'raf 7:28) for details"
ExampleCitationWords ==
    <<<<"S", "e", "e">>,
      <<"(", "A", "l", "-", "A", "'", "r", "a", "f">>,
      <<"7", ":", "2", "8", ")">>,
      <<"f", "o", "r">>,
      <<"d", "e", "t", "a", "i", "l", "s">>>>

\* longer token sequences: the example, and sequences with a numeral too
\* long for float() alone, after a compound numeral, and between words
SampleTokenWords ==
    {ExampleCitationWords,
     <<HugeNumeral>>,
     <<(<<"7", "3">>), HugeNumeral>>,
     <<(<<"a">>), HugeNumeral, (<<"9", "9">>)>>}

\* the intervals of such a sequence of n tokens: contiguous from 0, with
\* gaps, overlapping, or in decreasing order
Shapes == {"contiguous", "gapped", "overlapping", "decreasing"}

shape_interval(shape, k, n) ==
    CASE shape = "contiguous"  -> <<RInt(k - 1), RInt(k)>>
      [] shape = "gapped"      -> <<RInt(2 * k), RInt(2 * k + 1)>>
      [] shape = "overlapping" -> <<RInt(k - 1), RInt(k + 1)>>
      [] shape = "decreasing"  -> <<RInt(n - k), RInt(n - k + 1)>>

TimingInputs ==
    {[k \in 1..Len(ws) |->
         <<ws[k], shape_interval(sh, k, Len(ws))[1], shape_interval(sh, k, Len(ws))[2]>>] :
       ws \in SeqsUpTo(ExpandWords, MaxTokens) \cup SampleTokenWords \cup {<<>>},
       sh \in Shapes}

\* timing sequences as a backend may return them for a text: the estimate or
\* its expansion, with one contiguous run of tokens moved to the front
move_to_front(timings, a, b) ==
    SubSeq(timings, a, b) \o SubSeq(timings, 1, a - 1) \o SubSeq(timings, b + 1, Len(timings))

BackendOrders(timings) ==
    UNION {{move_to_front(timings, a, b) : b \in a..Len(timings)} : a \in 1..Len(timings)}

BackendTimings(t, d) ==
    LET approx == generate_approximate_word_timings(t, d)
        expanded == expand_numeric_references(approx)
    IN  BackendOrders(approx)
          \cup (IF expanded.raised = "none" THEN BackendOrders(expanded.timings) ELSE {})

(***************************************************************************)
(* The state of a TextToSpeech instance and of its generate_speech calls.  *)
(***************************************************************************)
\* the empty dict
EmptyDict == [k \in {} |-> {}]

\* d[key] = value
DictPut(d, key, value) ==
    [k \in DOMAIN d \cup {key} |-> IF k = key THEN value ELSE d[k]]

\* del d[key]
DictDel(d, key) == [k \in DOMAIN d \ {key} |-> d[k]]

\* the calls of generate_speech that may be in progress at once
Requests == {1, 2}

\* a result dict; duration is <<>> while the dict has no "duration"
NoResult == [path |-> <<>>, word_timings |-> <<>>, duration |-> <<>>]

\* the locals of a call that has not started
NoRequest ==
    [pc |-> "idle", text |-> <<>>, voice_name |-> <<>>, settings |-> <<>>,
     cache_key |-> <<>>, output_path |-> <<>>, result |-> NoResult,
     raised |-> "none", calls |-> <<>>]

\* no instance: the timing engine is used on its own
TtsIdle ==
    /\ provider_name = "elevenlabs"
    /\ api_key = <<>>
    /\ available_voices = <<>>
    /\ cache = EmptyDict
    /\ cache_file = EmptyDict
    /\ files = {}
    /\ clock = 0
    /\ requests = [r \in Requests |-> NoRequest]
    /\ synthesized = EmptyDict

\* no image generation under way: a GeminiClient call that has not started
NoGeneration ==
    [pc |-> "idle", is_test_mode |-> FALSE, num_outputs |-> 0,
     default_placeholder |-> FALSE, i |-> 0, attempts |-> 0, success |-> FALSE,
     image_paths |-> <<>>, log |-> <<>>, returned |-> <<>>, raised |-> "none"]

GeminiIdle == gemini = NoGeneration

(***************************************************************************)
(* The fallback path of _generate_speech_elevenlabs: estimate, expand,     *)
(* correct.                                                                *)
(***************************************************************************)
Init ==
    /\ text \in Texts
    /\ duration \in Durations
    /\ approximate_timings = <<>>
    /\ expanded_timings = <<>>
    /\ origin = <<>>
    /\ word_timings = <<>>
    /\ raised = "none"
    /\ pc = "estimate"
    /\ TtsIdle
    /\ GeminiIdle

\* approximate_timings = self._generate_approximate_word_timings(text, duration)
Estimate ==
    /\ pc = "estimate"
    /\ approximate_timings' = generate_approximate_word_timings(text, duration)
    /\ pc' = "expand"
    /\ UNCHANGED <<text, duration, expanded_timings, origin, word_timings, raised>>
    /\ UNCHANGED tts_vars
    /\ UNCHANGED gemini_vars

\* word_timings = self._expand_numeric_references(approximate_timings)
Expand ==
    /\ pc = "expand"
    /\ LET r == expand_numeric_references(approximate_timings)
       IN  /\ raised' = r.raised
           /\ expanded_timings' = IF r.raised = "none" THEN r.timings ELSE <<>>
           /\ origin' = IF r.raised = "none" THEN r.origin ELSE <<>>
           /\ pc' = IF r.raised = "none" THEN "fix" ELSE "failed"
    /\ UNCHANGED <<text, duration, approximate_timings, word_timings>>
    /\ UNCHANGED tts_vars
    /\ UNCHANGED gemini_vars

\* word_timings = self._fix_reference_order(text, word_timings)
Fix ==
    /\ pc = "fix"
    /\ word_timings' = fix_reference_order(text, expanded_timings)
    /\ pc' = "done"
    /\ UNCHANGED <<text, duration, approximate_timings, expanded_timings, origin, raised>>
    /\ UNCHANGED tts_vars
    /\ UNCHANGED gemini_vars

Next == Estimate \/ Expand \/ Fix

Spec == Init /\ [][Next]_vars

(***************************************************************************)
(* expand applied to an arbitrary timing sequence.                         *)
(***************************************************************************)
InitExpand ==
    /\ text = <<>>
    /\ duration = RInt(1)
    /\ approximate_timings \in TimingInputs
    /\ expanded_timings = <<>>
    /\ origin = <<>>
    /\ word_timings = <<>>
    /\ raised = "none"
    /\ pc = "expand"
    /\ TtsIdle
    /\ GeminiIdle

NextExpand == Expand

SpecExpand == InitExpand /\ [][NextExpand]_vars

(***************************************************************************)
(* correct applied to a timing sequence whose order the backend changed.   *)
(***************************************************************************)
InitFix ==
    /\ text \in Texts
    /\ duration = RInt(1)
    /\ approximate_timings = <<>>
    /\ expanded_timings \in BackendTimings(text, duration)
    /\ origin = <<>>
    /\ word_timings = <<>>
    /\ raised = "none"
    /\ pc = "fix"
    /\ TtsIdle
    /\ GeminiIdle

NextFix == Fix

SpecFix == InitFix /\ [][NextFix]_vars

(***************************************************************************)
(* generate_speech and the cache.  A call runs in three steps, between     *)
(* which other calls and the environment may act: Call (lines 325-378: the *)
(* empty-text check, the settings, the cache key, the cache lookup and the *)
(* file name), Synthesize (lines 380-384: the provider) and Store (lines   *)
(* 387-389: _cache_audio and the return).  Writing tts_cache.json is taken *)
(* to succeed.  Requests are made with use_smart_voice=False: the voice    *)
(* optimizer is not part of this source.  Neither is the UnrealSpeech      *)
(* provider, which appears as the outcomes it can have.                    *)
(***************************************************************************)
MaxClock == 1

\* the texts of the requests: empty, whitespace only, two texts with one
\* cache key, a citation that correct relocates
SpeechTexts ==
    {<<>>,
     <<" ", " ">>,
     <<"a">>,
     <<" ", "A", " ">>,
     <<"a", " ", "b", " ", "(", " ", "7", ":", "2", "8", ")", " ", "c">>}

\* self.output_dir / f"{self.provider_name}_{timestamp}_Daniel.mp3"
output_path_of(provider, timestamp) == <<provider, timestamp>>

\* len(test_audio) / 1000.0: 2000 ms and 3000 ms of sine wave
test_audio_duration == RAdd(Rat(2000, 1000), Rat(3000, 1000))

\* what measuring the audio file yields: a length, or an exception
Measurements == {[ok |-> TRUE, d |-> RInt(2)], [ok |-> FALSE, d |-> RInt(0)]}

\* the outcome of a provider call
Outcomes == {"ok", "api_error", "io_error"}

\* the timings of the test branch, lines 425-427
test_mode_timings(t) ==
    LET approx == generate_approximate_word_timings(t, test_audio_duration)
        r == expand_numeric_references(approx)
    IN  [raised |-> r.raised,
         word_timings |-> IF r.raised = "none" THEN r.timings ELSE <<>>,
         calls |-> <<"_generate_approximate_word_timings",
                     "_expand_numeric_references">>]

\* the timings of the API branch, lines 465-470
api_timings(t, d) ==
    LET approx == generate_approximate_word_timings(t, d)
        r == expand_numeric_references(approx)
    IN  IF r.raised # "none"
        THEN [raised |-> r.raised, word_timings |-> <<>>,
              calls |-> <<"_generate_approximate_word_timings",
                          "_expand_numeric_references">>]
        ELSE [raised |-> "none",
              word_timings |-> fix_reference_order(t, r.timings),
              calls |-> <<"_generate_approximate_word_timings",
                          "_expand_numeric_references",
                          "_fix_reference_order">>]

\* the two, tabulated for the texts and durations of the requests
NormalizedTexts == {Strip(t) : t \in SpeechTexts}

ApiDurations(t) == {m.d : m \in {x \in Measurements : x.ok}} \cup {Rat(Len(t), 15)}

test_mode_timings_of == [t \in NormalizedTexts |-> test_mode_timings(t)]

api_timings_of == [t \in NormalizedTexts |-> [d \in ApiDurations(t) |-> api_timings(t, d)]]

\* the outcome of a provider method: the exception it raises or the result
\* it returns, the files on disk afterwards, the timing functions it called
Raise(exception, fs, called) ==
    [raised |-> exception, result |-> NoResult, files |-> fs, calls |-> called]

Return(res, fs, called) ==
    [raised |-> "none", result |-> res, files |-> fs, calls |-> called]

\* _generate_speech_elevenlabs(text, voice_name, settings, model, output_path),
\* with the outcome of the API call or file write and of measuring the audio
generate_speech_elevenlabs(t, voice_name, output_path, outcome, measurement) ==
    LET voice == find_voice(available_voices, voice_name)
        written == files \cup {output_path}
    IN  IF voice = <<>> THEN Raise("TTSError", files, <<>>)
        ELSE IF IsTestKey(api_key) \/ IsTestVoiceId(voice[1].voice_id)
        THEN IF outcome = "io_error" THEN Raise("TTSError", written, <<>>)
             ELSE LET tm == test_mode_timings_of[t]
                  IN  IF tm.raised # "none" THEN Raise("TTSError", written, tm.calls)
                      ELSE Return([path |-> output_path,
                                   word_timings |-> tm.word_timings,
                                   duration |-> test_audio_duration],
                                  written, tm.calls)
        ELSE IF outcome = "api_error" THEN Raise("TTSError", files, <<>>)
        ELSE IF outcome = "io_error" THEN Raise("TTSError", written, <<>>)
        ELSE LET d == IF measurement.ok THEN measurement.d ELSE Rat(Len(t), 15)
                 tm == api_timings_of[t][d]
             IN  IF tm.raised # "none" THEN Raise("TTSError", written, tm.calls)
                 ELSE Return([path |-> output_path,
                              word_timings |-> tm.word_timings,
                              duration |-> d],
                             written, tm.calls)

\* the paths an UnrealSpeech provider may write its audio to
UnrealPaths == {<<"unrealspeech", n>> : n \in 0..MaxClock}

\* the word timings an UnrealSpeech provider returns: one token per word
provider_word_timings(t) ==
    [k \in 1..Len(Split(t)) |-> <<Split(t)[k], RInt(k - 1), RInt(k)>>]

\* _generate_speech_unrealspeech(text, voice_name, settings, output_path): the
\* provider raises UnrealSpeechError, which is wrapped, or another exception,
\* which is not, or returns its result, with or without a duration
generate_speech_unrealspeech(t, outcome, path, with_duration) ==
    IF outcome = "api_error" THEN Raise("TTSError", files, <<>>)
    ELSE IF outcome = "io_error"
    THEN Raise("OSError", files \cup {path}, <<>>)
    ELSE Return([path |-> path,
                 word_timings |-> provider_word_timings(t),
                 duration |-> IF with_duration THEN RInt(2) ELSE <<>>],
                files \cup {path}, <<>>)

\* except Exception as e: raise TTSError(...), lines 391-393
escaping_unwrapped(exception) == exception

escaping(exception) == "TTSError"

\* _get_cached_audio that deletes a stale entry from self.cache and does
\* not call self._save_cache()
get_cached_audio_unsaved(cache_key) ==
    IF cache_key \in DOMAIN cache
    THEN IF cache[cache_key].path \in files
         THEN [found |-> TRUE,
               data |-> [path |-> cache[cache_key].path,
                         word_timings |-> cache[cache_key].word_timings,
                         duration |-> cache[cache_key].duration],
               cache |-> cache, cache_file |-> cache_file,
               calls |-> <<"_get_cached_audio">>]
         ELSE [found |-> FALSE, data |-> NoResult,
               cache |-> DictDel(cache, cache_key),
               cache_file |-> cache_file,
               calls |-> <<"_get_cached_audio">>]
    ELSE [found |-> FALSE, data |-> NoResult,
          cache |-> cache, cache_file |-> cache_file,
          calls |-> <<"_get_cached_audio">>]

\* _get_cached_audio(cache_key): the dict it returns, if any, the cache in
\* memory and on disk afterwards (_save_cache writes self.cache), its calls
get_cached_audio(cache_key) ==
    IF cache_key \in DOMAIN cache
    THEN IF cache[cache_key].path \in files
         THEN [found |-> TRUE,
               data |-> [path |-> cache[cache_key].path,
                         word_timings |-> cache[cache_key].word_timings,
                         duration |-> cache[cache_key].duration],
               cache |-> cache, cache_file |-> cache_file,
               calls |-> <<"_get_cached_audio">>]
         ELSE [found |-> FALSE, data |-> NoResult,
               cache |-> DictDel(cache, cache_key),
               cache_file |-> DictDel(cache, cache_key),
               calls |-> <<"_get_cached_audio", "_save_cache">>]
    ELSE [found |-> FALSE, data |-> NoResult,
          cache |-> cache, cache_file |-> cache_file,
          calls |-> <<"_get_cached_audio">>]

\* _cache_audio that fills in the duration and stores nothing
cache_audio_dropped(cache_key, result, measurement) ==
    [result |-> IF result.duration = <<>>
                THEN [result EXCEPT !.duration = IF measurement.ok THEN measurement.d
                                                 ELSE RInt(0)]
                ELSE result,
     cache |-> cache,
     cache_file |-> cache_file]

\* _cache_audio(cache_key, result): the result dict, which gets a duration
\* if it had none, and the cache in memory and on disk afterwards
cache_audio(cache_key, result, measurement) ==
    LET with_duration ==
            IF result.duration = <<>>
            THEN [result EXCEPT !.duration = IF measurement.ok THEN measurement.d
                                             ELSE RInt(0)]
            ELSE result
        entry == [path |-> with_duration.path,
                  word_timings |-> with_duration.word_timings,
                  duration |-> with_duration.duration]
    IN  [result |-> with_duration,
         cache |-> DictPut(cache, cache_key, entry),
         cache_file |-> DictPut(cache, cache_key, entry)]

\* the settings of a request made with use_smart_voice=False, lines 352-364
request_settings(provider, t) ==
    LET content_type == detect_content_type(t)
    IN  IF provider = "elevenlabs" THEN voice_settings(content_type)
        ELSE map_voice_settings(voice_settings(content_type))

\* the settings and the cache key, tabulated for the providers and the texts
\* of the requests
Providers == {"elevenlabs", "unrealspeech"}

request_settings_of ==
    [p \in Providers |-> [t \in NormalizedTexts |-> request_settings(p, t)]]

cache_key_of ==
    [p \in Providers |-> [t \in NormalizedTexts |->
        get_cache_key(p, t, Daniel, request_settings_of[p][t])]]

Idle(r) == requests[r].pc \in {"idle", "returned", "raised"}

\* not text: the test of line 325 without the strip()
is_empty_text_unstripped(t) == t = <<>>

\* not text.strip(), line 325
is_empty_text(t) == Strip(t) = <<>>

\* generate_speech(text) with a text that strips to nothing, lines 325-326
CallEmpty(r) ==
    /\ Idle(r)
    /\ \E t \in SpeechTexts :
          /\ is_empty_text(t)
          /\ requests' = [requests EXCEPT ![r] =
                 [NoRequest EXCEPT !.pc = "raised", !.text = t, !.raised = "TTSError"]]
    /\ UNCHANGED <<provider_name, api_key, available_voices, cache, cache_file,
                   files, clock, synthesized>>
    /\ UNCHANGED timing_vars
    /\ UNCHANGED gemini_vars

\* generate_speech(text, use_smart_voice=False), lines 325-378: the settings,
\* the cache key, the cache lookup and, on a miss, the file name
CallLookup(r) ==
    /\ Idle(r)
    /\ \E t \in SpeechTexts :
          /\ ~is_empty_text(t)
          /\ LET settings == request_settings_of[provider_name][Strip(t)]
                 cache_key == cache_key_of[provider_name][Strip(t)]
                 cached == get_cached_audio(cache_key)
                 req == [NoRequest EXCEPT !.text = t, !.voice_name = Daniel,
                                          !.settings = settings,
                                          !.cache_key = cache_key,
                                          !.calls = cached.calls]
             IN  /\ cache' = cached.cache
                 /\ cache_file' = cached.cache_file
                 /\ requests' = [requests EXCEPT ![r] =
                        IF cached.found
                        THEN [req EXCEPT !.pc = "returned", !.result = cached.data]
                        ELSE [req EXCEPT !.pc = "synth",
                                         !.output_path = output_path_of(provider_name, clock)]]
    /\ UNCHANGED <<provider_name, api_key, available_voices, files, clock, synthesized>>
    /\ UNCHANGED timing_vars
    /\ UNCHANGED gemini_vars

\* generate_speech that puts the entry of its key into the cache whether the
\* provider method has raised or returned
SynthesizedCachingFailures(r, out) ==
    LET req == requests[r]
        called == req.calls \o <<"provider">> \o out.calls
        entry == [path |-> req.output_path,
                  word_timings |-> out.result.word_timings,
                  duration |-> RInt(0)]
    IN  /\ files' = out.files
        /\ cache' = DictPut(cache, req.cache_key, entry)
        /\ cache_file' = DictPut(cache, req.cache_key, entry)
        /\ requests' = [requests EXCEPT ![r] =
               IF out.raised # "none"
               THEN [req EXCEPT !.pc = "raised", !.calls = called,
                                !.raised = "TTSError"]
               ELSE [req EXCEPT !.pc = "store", !.calls = called,
                                !.result = out.result]]
        /\ UNCHANGED <<provider_name, api_key, available_voices, clock, synthesized>>
        /\ UNCHANGED timing_vars
        /\ UNCHANGED gemini_vars

\* lines 380-393: the provider method has ended with out; what escapes from
\* generate_speech is wrapped, a result goes on to _cache_audio
Synthesized(r, out) ==
    LET req == requests[r]
        called == req.calls \o <<"provider">> \o out.calls
    IN  /\ files' = out.files
        /\ requests' = [requests EXCEPT ![r] =
               IF out.raised # "none"
               THEN [req EXCEPT !.pc = "raised", !.calls = called,
                                !.raised = escaping(out.raised)]
               ELSE [req EXCEPT !.pc = "store", !.calls = called,
                                !.result = out.result]]
        /\ UNCHANGED <<provider_name, api_key, available_voices, cache, cache_file,
                       clock, synthesized>>
        /\ UNCHANGED timing_vars
        /\ UNCHANGED gemini_vars

\* lines 380-381: result = self._generate_speech_elevenlabs(...)
SynthesizeElevenLabs(r) ==
    /\ requests[r].pc = "synth"
    /\ provider_name = "elevenlabs"
    /\ \E outcome \in Outcomes, measurement \in Measurements :
          Synthesized(r, generate_speech_elevenlabs(Strip(requests[r].text),
                             requests[r].voice_name, requests[r].output_path,
                             outcome, measurement))

\* lines 382-383: result = self._generate_speech_unrealspeech(...)
SynthesizeUnrealSpeech(r) ==
    /\ requests[r].pc = "synth"
    /\ provider_name = "unrealspeech"
    /\ \E outcome \in Outcomes, path \in UnrealPaths, with_duration \in BOOLEAN :
          Synthesized(r, generate_speech_unrealspeech(Strip(requests[r].text),
                             outcome, path, with_duration))

\* lines 387-389: self._cache_audio(cache_key, result); return result
Store(r) ==
    /\ requests[r].pc = "store"
    /\ \E measurement \in Measurements :
          LET req == requests[r]
              stored == cache_audio(req.cache_key, req.result, measurement)
          IN  /\ cache' = stored.cache
              /\ cache_file' = stored.cache_file
              /\ synthesized' = IF stored.result.path \in files
                                 THEN DictPut(synthesized, req.cache_key, stored.result.path)
                                 ELSE DictDel(synthesized, req.cache_key)
              /\ requests' = [requests EXCEPT ![r] =
                     [req EXCEPT !.pc = "returned", !.result = stored.result,
                                 !.calls = req.calls \o <<"_cache_audio", "_save_cache">>]]
    /\ UNCHANGED <<provider_name, api_key, available_voices, files, clock>>
    /\ UNCHANGED timing_vars
    /\ UNCHANGED gemini_vars

\* an audio file is deleted from the output directory
DeleteAudio ==
    /\ \E path \in files :
          /\ files' = files \ {path}
          /\ synthesized' = [k \in {x \in DOMAIN synthesized : synthesized[x] # path} |->
                                 synthesized[k]]
    /\ UNCHANGED <<provider_name, api_key, available_voices, cache, cache_file,
                   clock, requests>>
    /\ UNCHANGED timing_vars
    /\ UNCHANGED gemini_vars

\* a second passes
Tick ==
    /\ clock < MaxClock
    /\ clock' = clock + 1
    /\ UNCHANGED <<provider_name, api_key, available_voices, cache, cache_file,
                   files, requests, synthesized>>
    /\ UNCHANGED timing_vars
    /\ UNCHANGED gemini_vars

\* the instance after construction: a provider, its key and voices, the
\* cache of an output directory without tts_cache.json
InitSpeech ==
    /\ provider_name \in Providers
    /\ api_key \in ApiKeys
    /\ provider_name = "unrealspeech" => ~IsTestKey(api_key)
    /\ available_voices \in
           IF provider_name = "elevenlabs" /\ IsTestKey(api_key)
           THEN {TestVoices} ELSE RealCatalogs
    /\ cache = EmptyDict
    /\ cache_file = EmptyDict
    /\ files = {}
    /\ clock = 0
    /\ requests = [r \in Requests |-> NoRequest]
    /\ synthesized = EmptyDict
    /\ text = <<>>
    /\ duration = RInt(1)
    /\ approximate_timings = <<>>
    /\ expanded_timings = <<>>
    /\ origin = <<>>
    /\ word_timings = <<>>
    /\ raised = "none"
    /\ pc = "idle"
    /\ GeminiIdle

\* the calls of one caller, made one after the other
Caller == {1}

NextSpeech ==
    \/ \E r \in Caller : CallEmpty(r)
    \/ \E r \in Caller : CallLookup(r)
    \/ \E r \in Caller : SynthesizeElevenLabs(r)
    \/ \E r \in Caller : SynthesizeUnrealSpeech(r)
    \/ \E r \in Caller : Store(r)
    \/ DeleteAudio
    \/ Tick

SpecSpeech == InitSpeech /\ [][NextSpeech]_vars

(***************************************************************************)
(* _get_cache_key applied to two calls' arguments.                         *)
(***************************************************************************)
\* texts, voices and settings dicts: equal up to case and spacing or not,
\* the same items inserted in different orders, another value, no settings
KeyTexts ==
    {<<"a", " ", "b">>, <<" ", "A", " ", " ", "b", " ">>, <<"b">>}

KeyVoices == {Daniel, <<" ">> \o Lower(Daniel) \o <<" ">>, Rachel}

InsertionOrders(S) ==
    {f \in [1..Cardinality(S) -> S] : \A x \in S : \E k \in 1..Cardinality(S) : f[k] = x}

KeySettings ==
    InsertionOrders({<<stability, "0.7">>, <<similarity_boost, "0.8">>, <<style, "0.65">>})
      \cup {<<<<stability, "0.7">>, <<similarity_boost, "0.8">>, <<style, "0.8">>>>, <<>>}

KeyRequests ==
    {[NoRequest EXCEPT !.pc = "key", !.text = t, !.voice_name = v, !.settings = s] :
        t \in KeyTexts, v \in KeyVoices, s \in KeySettings}

InitKey ==
    /\ provider_name \in Providers
    /\ api_key = <<>>
    /\ available_voices = <<>>
    /\ cache = EmptyDict
    /\ cache_file = EmptyDict
    /\ files = {}
    /\ clock = 0
    /\ requests \in [Requests -> KeyRequests]
    /\ synthesized = EmptyDict
    /\ text = <<>>
    /\ duration = RInt(1)
    /\ approximate_timings = <<>>
    /\ expanded_timings = <<>>
    /\ origin = <<>>
    /\ word_timings = <<>>
    /\ raised = "none"
    /\ pc = "idle"
    /\ GeminiIdle

\* cache_key = self._get_cache_key(text, voice, settings)
GetCacheKey(r) ==
    /\ requests[r].pc = "key"
    /\ requests' = [requests EXCEPT ![r] =
           [requests[r] EXCEPT
               !.pc = "keyed",
               !.cache_key = get_cache_key(provider_name, requests[r].text,
                                 requests[r].voice_name, requests[r].settings)]]
    /\ UNCHANGED <<provider_name, api_key, available_voices, cache, cache_file,
                   files, clock, synthesized>>
    /\ UNCHANGED timing_vars
    /\ UNCHANGED gemini_vars

NextKey == \E r \in Requests : GetCacheKey(r)

SpecKey == InitKey /\ [][NextKey]_vars

(***************************************************************************)
(* generate_speech called from two threads on one instance: the steps of   *)
(* the two calls interleave; nothing in lines 307-393 or 746-762 takes a    *)
(* lock.  The instance is an ElevenLabs one with a real key and a catalog  *)
(* that lists Daniel.                                                      *)
(***************************************************************************)
InitConcurrent ==
    /\ InitSpeech
    /\ provider_name = "elevenlabs"
    /\ ~IsTestKey(api_key)
    /\ find_voice(available_voices, Daniel) # <<>>

NextConcurrent ==
    \/ \E r \in Requests : CallEmpty(r)
    \/ \E r \in Requests : CallLookup(r)
    \/ \E r \in Requests : SynthesizeElevenLabs(r)
    \/ \E r \in Requests : Store(r)
    \/ Tick

SpecConcurrent == InitConcurrent /\ [][NextConcurrent]_vars

(***************************************************************************)
(* GeminiClient._generate_with_gemini_multimodal(prompt, params).  In test *)
(* mode the call is one step.  Otherwise it is the for loop over the       *)
(* requested images and, inside it, the while loop of attempts; each       *)
(* attempt makes one backend call, of which only the outcome is modelled.  *)
(* File names carry a uuid4: a path is represented by the image and the    *)
(* attempt it was written in.                                              *)
(***************************************************************************)
MaxOutputs == 2

\* max_attempts_per_image = 3, line 276
max_attempts_per_image == 3

\* how creating one test image ends: saved, or an exception and then
\* _create_fallback_image saves a black image or returns the path of
\* gemini_error_<id>.png
TestOutcomes == {"gemini_test", "gemini_fallback", "gemini_error"}

\* how one attempt ends: an exception in the try block (the backend call
\* raised), a response without candidates, content, parts or image part, an
\* image part that fails verification and is deleted, a verified image
AttemptOutcomes == {"api_error", "invalid", "unverified", "verified"}

DefaultPlaceholder == <<"default_placeholder">>

\* the while condition without "not success": every image gets all attempts
may_retry_after_success(success, attempts) ==
    attempts < max_attempts_per_image

\* while not success and attempts < max_attempts_per_image, line 284
may_retry(success, attempts) ==
    ~success /\ attempts < max_attempts_per_image

\* the end of the call that returns image_paths whatever it holds
finish_returning_empty(image_paths, default_placeholder) ==
    [returned |-> image_paths, raised |-> "none"]

\* lines 363-373: the paths, the default placeholder if there are none and
\* the file exists, MediaGenerationError otherwise
finish(image_paths, default_placeholder) ==
    IF image_paths # <<>> THEN [returned |-> image_paths, raised |-> "none"]
    ELSE IF default_placeholder
    THEN [returned |-> <<DefaultPlaceholder>>, raised |-> "none"]
    ELSE [returned |-> <<>>, raised |-> "MediaGenerationError"]

\* a client, in test mode or not, the num_outputs of the call and whether
\* default_placeholder.png exists in the download directory
InitGemini ==
    /\ \E t \in BOOLEAN, n \in 0..MaxOutputs, p \in BOOLEAN :
          gemini = [NoGeneration EXCEPT !.pc = IF t THEN "test" ELSE "for",
                                        !.is_test_mode = t,
                                        !.num_outputs = n,
                                        !.default_placeholder = p]
    /\ TtsIdle
    /\ text = <<>>
    /\ duration = RInt(1)
    /\ approximate_timings = <<>>
    /\ expanded_timings = <<>>
    /\ origin = <<>>
    /\ word_timings = <<>>
    /\ raised = "none"
    /\ pc = "idle"

\* the test-mode branch, lines 223-271: one path per requested image
GenerateTestImages ==
    /\ gemini.pc = "test"
    /\ \E outcomes \in [1..gemini.num_outputs -> TestOutcomes] :
          LET image_paths == [k \in 1..gemini.num_outputs |-> <<outcomes[k], k, 0>>]
          IN  gemini' = [gemini EXCEPT !.pc = "returned",
                                       !.i = gemini.num_outputs,
                                       !.image_paths = image_paths,
                                       !.returned = image_paths]
    /\ UNCHANGED timing_vars
    /\ UNCHANGED tts_vars

\* for i in range(num_outputs): success = False; attempts = 0, lines 279-281
ForImage ==
    /\ gemini.pc = "for"
    /\ gemini.i < gemini.num_outputs
    /\ gemini' = [gemini EXCEPT !.pc = "while",
                                !.i = gemini.i + 1,
                                !.success = FALSE,
                                !.attempts = 0,
                                !.log = Append(gemini.log, <<>>)]
    /\ UNCHANGED timing_vars
    /\ UNCHANGED tts_vars

\* one pass of the while body, lines 284-358
Attempt ==
    /\ gemini.pc = "while"
    /\ may_retry(gemini.success, gemini.attempts)
    /\ \E outcome \in AttemptOutcomes :
          gemini' = [gemini EXCEPT
              !.attempts = gemini.attempts + 1,
              !.log[gemini.i] = Append(gemini.log[gemini.i], outcome),
              !.success = (outcome = "verified"),
              !.image_paths =
                  IF outcome = "verified"
                  THEN Append(gemini.image_paths, <<"gemini", gemini.i, gemini.attempts + 1>>)
                  ELSE gemini.image_paths]
    /\ UNCHANGED timing_vars
    /\ UNCHANGED tts_vars

\* the while loop ends, lines 284 and 360-361
EndImage ==
    /\ gemini.pc = "while"
    /\ ~may_retry(gemini.success, gemini.attempts)
    /\ gemini' = [gemini EXCEPT !.pc = "for"]
    /\ UNCHANGED timing_vars
    /\ UNCHANGED tts_vars

\* the for loop ends, lines 363-373
Finish ==
    /\ gemini.pc = "for"
    /\ gemini.i >= gemini.num_outputs
    /\ LET end == finish(gemini.image_paths, gemini.default_placeholder)
       IN  gemini' = [gemini EXCEPT
               !.pc = IF end.raised = "none" THEN "returned" ELSE "raised",
               !.returned = end.returned,
               !.raised = end.raised]
    /\ UNCHANGED timing_vars
    /\ UNCHANGED tts_vars

NextGemini == GenerateTestImages \/ ForImage \/ Attempt \/ EndImage \/ Finish

SpecGemini == InitGemini /\ [][NextGemini]_vars

\* the call keeps running: every backend call comes back
FairSpecGemini == SpecGemini /\ WF_vars(NextGemini)

(***************************************************************************)
(* Properties.                                                             *)
(***************************************************************************)
Zero == RInt(0)
Tolerance == Rat(1, 100)
Returned == pc \in {"fix", "done"}      \* expand has returned a sequence
Last(s) == s[Len(s)]

\* the end of the 60% share of [s, e]
SixTenths(s, e) == RAdd(s, RMul(Rat(3, 5), RSub(e, s)))

\* the output positions made from input token i alone
OutputsOf(i) == {k \in 1..Len(origin) : origin[k] = <<i, i>>}

\* input token i was consumed by a citation merge of several tokens
Consumed(i) ==
    \E k \in 1..Len(origin) :
        origin[k][1] <= i /\ i <= origin[k][2] /\ origin[k][1] < origin[k][2]

\* the timings before the final normalisation of estimate
RawTimings ==
    LET words == Split(text)
    IN  cumulative_timings(words,
            adjusted_durations(words, initial_durations(words, duration), duration))

(* C1: spanning invariant of estimate.  For a text with at least one token
   and a positive duration, the sequence estimate returns has one token per
   word, its first start is 0 and its last end is within 0.01 of the
   duration. *)
C1_SpanningInvariant ==
    (pc # "estimate" /\ Split(text) # <<>>) =>
        /\ Len(approximate_timings) = Len(Split(text))
        /\ approximate_timings[1][2] = Zero
        /\ RLe(RAbs(RSub(Last(approximate_timings)[3], duration)), Tolerance)

\* estimate has run on a text of several words whose weighted durations did
\* not add up to the duration, so the final normalisation rescaled them
C1_Witness ==
    /\ pc = "expand"
    /\ Len(Split(text)) >= 2
    /\ RLt(Tolerance, RAbs(RSub(Last(RawTimings)[3], duration)))
    /\ RLt(Tolerance, duration)

(* C2: duration conservation of expand.  For every non-empty input sequence
   on which expand returns, the output is non-empty, its first start is the
   input's first start and its last end is the input's last end. *)
C2_DurationConservation ==
    (Returned /\ approximate_timings # <<>>) =>
        /\ expanded_timings # <<>>
        /\ expanded_timings[1][2] = approximate_timings[1][2]
        /\ Last(expanded_timings)[3] = Last(approximate_timings)[3]

\* expand merged a citation of several tokens and split the last input token
C2_Witness ==
    /\ Returned
    /\ \E k \in 1..Len(origin) : origin[k][1] < origin[k][2]
    /\ Cardinality(OutputsOf(Len(approximate_timings))) = 2

\* the input of expand: every token has start <= end, starts never decrease
InputOrdered ==
    /\ \A i \in 1..Len(approximate_timings) :
           RLe(approximate_timings[i][2], approximate_timings[i][3])
    /\ \A i \in 1..(Len(approximate_timings) - 1) :
           RLe(approximate_timings[i][2], approximate_timings[i + 1][2])

\* no token of the input ends after the next one starts
InputNonOverlapping ==
    \A i \in 1..(Len(approximate_timings) - 1) :
        RLe(approximate_timings[i][3], approximate_timings[i + 1][2])

\* the output of expand: tokens in the order of the input tokens they derive
\* from, each with start <= end, starts never decreasing
OutputOrdered ==
    /\ Len(origin) = Len(expanded_timings)
    /\ \A k \in 1..(Len(origin) - 1) : origin[k][1] <= origin[k + 1][1]
    /\ \A k \in 1..Len(expanded_timings) :
           RLe(expanded_timings[k][2], expanded_timings[k][3])
    /\ \A k \in 1..(Len(expanded_timings) - 1) :
           RLe(expanded_timings[k][2], expanded_timings[k + 1][2])

(* C3 as claimed: order preservation of expand for every input whose tokens
   have start <= end and non-decreasing starts. *)
C3_OrderPreservation_Claimed ==
    (Returned /\ InputOrdered) => OutputOrdered

(* C3 as amended: order preservation of expand for every input whose tokens
   have start <= end and do not overlap (each token ends no later than the
   next one starts, as in the sequences estimate produces). *)
C3_OrderPreservation ==
    (Returned /\ InputOrdered /\ InputNonOverlapping) => OutputOrdered

\* expand merged a citation and split a token of an input without overlaps
\* that has further tokens after the split one
C3_Witness ==
    /\ Returned
    /\ InputOrdered /\ InputNonOverlapping
    /\ Len(approximate_timings) >= 3
    /\ \E k \in 1..Len(origin) : origin[k][1] < origin[k][2]
    /\ \E i \in 1..(Len(approximate_timings) - 1) : Cardinality(OutputsOf(i)) = 2

(* C4: idempotence of correction.  For a sequence whose tokens are in the
   order of the text, here expand(estimate(text, d)), correct returns its
   input. *)
C4_CorrectionIdempotent ==
    pc = "done" => word_timings = expanded_timings

TextMisplaced == <<"T", "h", "e", " ", "v", "e", "r", "s", "e", " ", "(", "A", "l", "-", "A", "'", "r", "a", "f", " ", "7", ":", "2", "8", ")", " ", "s", "t", "a", "t", "e", "s", " ", "c", "l", "e", "a", "r", "l", "y", " ", "t", "h", "a", "t">>

CitationFirstWords ==
    <<<<"(", "A", "l", "-", "A", "'", "r", "a", "f">>,
      <<"7", ":", "2", "8", ")">>,
      <<"T", "h", "e">>,
      <<"v", "e", "r", "s", "e">>,
      <<"s", "t", "a", "t", "e", "s">>,
      <<"c", "l", "e", "a", "r", "l", "y">>,
      <<"t", "h", "a", "t">>>>

CitationInPlaceWords ==
    <<<<"T", "h", "e">>,
      <<"v", "e", "r", "s", "e">>,
      <<"(", "A", "l", "-", "A", "'", "r", "a", "f">>,
      <<"7", ":", "2", "8", ")">>,
      <<"s", "t", "a", "t", "e", "s">>,
      <<"c", "l", "e", "a", "r", "l", "y">>,
      <<"t", "h", "a", "t">>>>

(* C5: misplacement correction.  For the text "The verse (Al-A'raf 7:28)
   states clearly that" and a sequence with the two citation tokens first,
   correct moves the citation to index 2 (after "The verse") and keeps the
   length. *)
C5_MisplacementCorrected ==
    (/\ pc = "done"
     /\ text = TextMisplaced
     /\ words_of(expanded_timings) = CitationFirstWords) =>
        /\ Len(word_timings) = Len(expanded_timings)
        /\ words_of(word_timings) = CitationInPlaceWords

\* the least index from i on whose word contains ")", 0 if there is none
ClosingIndex(i) ==
    LET cl == {j \in i..Len(approximate_timings) : Contains(approximate_timings[j][1], ")")}
    IN  IF cl = {} THEN 0 ELSE CHOOSE j \in cl : \A m \in cl : j <= m

\* the words of input tokens i..j joined by single spaces
JoinedWords(i, j) == Join(SubSeq(words_of(approximate_timings), i, j))

(* C6: citation atomicity.  Whenever the pass of expand arrives at a token
   containing "(", a token containing ")" follows at or after it, and the
   tokens up to the first such one, joined by spaces, contain a parenthesised
   <digits>:<digits>, expand emits one token for the run (the joined text,
   the start of the first token, the end of the last) and nothing else for
   the tokens of the run; in "See (Al-A'raf 7:28) for details" the citation
   becomes one token and the other three words are unchanged. *)
C6_CitationAtomicity ==
    Returned =>
        /\ \A k \in 1..Len(origin) :
               LET i == origin[k][1]
                   j == ClosingIndex(i)
               IN  (/\ Contains(approximate_timings[i][1], "(")
                    /\ j # 0
                    /\ CitationSearch(JoinedWords(i, j))) =>
                       /\ expanded_timings[k] =
                              <<JoinedWords(i, j), approximate_timings[i][2],
                                approximate_timings[j][3]>>
                       /\ \A m \in 1..Len(origin) :
                              (m # k) => (origin[m][2] < i \/ origin[m][1] > j)
        /\ (words_of(approximate_timings) = ExampleCitationWords) =>
               expanded_timings =
                   <<approximate_timings[1],
                     <<JoinedWords(2, 3), approximate_timings[2][2], approximate_timings[3][3]>>,
                     approximate_timings[4],
                     approximate_timings[5]>>

\* expand has run on the tokens of "See (Al-A'raf 7:28) for details" and
\* returned four tokens, the second made from input tokens 2 and 3
C6_Witness ==
    /\ Returned
    /\ words_of(approximate_timings) = ExampleCitationWords
    /\ Len(expanded_timings) = 4
    /\ origin[2] = <<2, 3>>

(* C7: compound split.  estimate("73", 1.0) followed by expand yields "70"
   over [0, 0.6] and "3" over [0.6, 1.0]; in general a compound numeral over
   [s, e] that expand split yields the tens token over [s, s + 0.6(e - s)]
   and the ones token over [s + 0.6(e - s), e]. *)
C7_CompoundSplit ==
    Returned =>
        /\ (text = <<"7", "3">> /\ duration = RInt(1)) =>
               expanded_timings =
                   << <<(<<"7", "0">>), Zero, Rat(3, 5)>>,
                      <<(<<"3">>), Rat(3, 5), RInt(1)>> >>
        /\ \A i \in 1..Len(approximate_timings) :
               LET word == approximate_timings[i][1]
                   s == approximate_timings[i][2]
                   e == approximate_timings[i][3]
               IN  (IsNumeric(word) /\ Cardinality(OutputsOf(i)) = 2) =>
                       \E k \in OutputsOf(i) :
                           /\ k + 1 \in OutputsOf(i)
                           /\ expanded_timings[k][1][2] = "0"
                           /\ expanded_timings[k][2] = s
                           /\ expanded_timings[k][3] = SixTenths(s, e)
                           /\ Len(expanded_timings[k + 1][1]) = 1
                           /\ expanded_timings[k + 1][2] = SixTenths(s, e)
                           /\ expanded_timings[k + 1][3] = e

\* the request for "73" with a duration of one second has run to its end
C7_Witness ==
    /\ pc = "done"
    /\ text = <<"7", "3">>
    /\ duration = RInt(1)
    /\ Len(expanded_timings) = 2

RoundValues == {30, 40, 50, 60, 70, 80, 90}

(* C8: round numeral.  Every numeral token whose value is a multiple of ten
   in 30..90 that the pass of expand arrives at gives exactly one output
   token, with the same text and the same interval. *)
C8_RoundNumeralUnchanged ==
    Returned =>
        \A i \in 1..Len(approximate_timings) :
            (/\ ~Consumed(i)
             /\ AllDigits(approximate_timings[i][1])
             /\ int_of_float(approximate_timings[i][1]) \in RoundValues) =>
                /\ Cardinality(OutputsOf(i)) = 1
                /\ \A k \in OutputsOf(i) : expanded_timings[k] = approximate_timings[i]

\* the numeral token i was split into a tens token and a ones token
SplitInTwo(i) ==
    /\ Cardinality(OutputsOf(i)) = 2
    /\ \E k \in OutputsOf(i) :
           /\ k + 1 \in OutputsOf(i)
           /\ expanded_timings[k][1] =
                  <<DigitChar(int_of_float(approximate_timings[i][1]) \div 10), "0">>
           /\ expanded_timings[k + 1][1] =
                  <<DigitChar(int_of_float(approximate_timings[i][1]) % 10)>>

\* the numeral token i was emitted unchanged
EmittedUnchanged(i) ==
    /\ Cardinality(OutputsOf(i)) = 1
    /\ \A k \in OutputsOf(i) : expanded_timings[k] = approximate_timings[i]

(* C9 as claimed: a numeral token that the pass of expand arrives at is
   split exactly when its integer value is strictly between 20 and 99 and
   its ones digit is not zero; numerals of 20 and below or 99 and above are
   emitted unchanged. *)
C9_CompoundRange_Claimed ==
    Returned =>
        \A i \in 1..Len(approximate_timings) :
            LET num == int_of_float(approximate_timings[i][1])
            IN  (~Consumed(i) /\ IsNumeric(approximate_timings[i][1])) =>
                    /\ SplitInTwo(i) <=> (20 < num /\ num < 99 /\ num % 10 # 0)
                    /\ (num <= 20 \/ num >= 99) => EmittedUnchanged(i)

(* C9 as amended: a numeral token that the pass of expand arrives at (one
   not consumed by a citation merge) is split exactly when its integer
   value is strictly between 20 and 100 and its ones digit is not zero;
   numerals of 20 and below or 100 and above are emitted unchanged. *)
C9_CompoundRange ==
    Returned =>
        \A i \in 1..Len(approximate_timings) :
            LET num == int_of_float(approximate_timings[i][1])
            IN  (~Consumed(i) /\ IsNumeric(approximate_timings[i][1])) =>
                    /\ SplitInTwo(i) <=> (20 < num /\ num < 100 /\ num % 10 # 0)
                    /\ (num <= 20 \/ num >= 100) => EmittedUnchanged(i)

\* expand split a "99" and left a numeral below the range as it was
C9_Witness ==
    /\ Returned
    /\ \E i \in 1..Len(approximate_timings) :
           approximate_timings[i][1] = <<"9", "9">> /\ SplitInTwo(i)
    /\ \E i \in 1..Len(approximate_timings) :
           approximate_timings[i][1] = <<"1", "5">> /\ EmittedUnchanged(i)

\* the text before and after the colon of a verse reference
ChapterOf(word) == SubSeq(word, 1, (CHOOSE p \in 1..Len(word) : word[p] = ":") - 1)
VerseOf(word) == SubSeq(word, (CHOOSE p \in 1..Len(word) : word[p] = ":") + 1, Len(word))

\* input token i was replaced by its chapter over the first 60% of its
\* interval and its verse part over the rest
VerseSplit(i) ==
    LET word == approximate_timings[i][1]
        s == approximate_timings[i][2]
        e == approximate_timings[i][3]
    IN  /\ Cardinality(OutputsOf(i)) = 2
        /\ \E k \in OutputsOf(i) :
               /\ expanded_timings[k] = <<ChapterOf(word), s, SixTenths(s, e)>>
               /\ expanded_timings[k + 1] = <<VerseOf(word), SixTenths(s, e), e>>
               /\ origin[k + 1] = <<i, i>>

(* C10 as claimed: every token of the form <digits>:<digits> or
   <digits>:<digits>-<digits> over [s, e] is replaced by the chapter part
   over [s, s + 0.6(e - s)] and the verse part over [s + 0.6(e - s), e]. *)
C10_VerseSplit_Claimed ==
    Returned =>
        \A i \in 1..Len(approximate_timings) :
            IsVerseReference(approximate_timings[i][1]) => VerseSplit(i)

(* C10 as amended: every token of the form <digits>:<digits> or
   <digits>:<digits>-<digits> over [s, e] that is not consumed by a citation
   merge is replaced by the chapter part over [s, s + 0.6(e - s)] and the
   verse part over [s + 0.6(e - s), e]. *)
C10_VerseSplit ==
    Returned =>
        \A i \in 1..Len(approximate_timings) :
            (IsVerseReference(approximate_timings[i][1]) /\ ~Consumed(i)) => VerseSplit(i)

\* expand split a verse range in an input that also holds a merged citation
C10_Witness ==
    /\ Returned
    /\ \E i \in 1..Len(approximate_timings) :
           /\ approximate_timings[i][1] = <<"9", ":", "1", "-", "2">>
           /\ VerseSplit(i)
    /\ \E i \in 1..Len(approximate_timings) : Consumed(i)

(* C11: estimate rejects a text without tokens.  When the text is empty or
   whitespace only, estimate fails with EmptyInputError and returns no
   sequence: the pipeline does not go on to expand. *)
C11_EmptyInputRejected ==
    (pc # "estimate" /\ Split(text) = <<>>) =>
        /\ raised = "EmptyInputError"
        /\ pc = "failed"

\* input token i is none of the kinds expand rewrites: not part of a merged
\* citation, not a verse reference, not a numeral
PlainToken(i) ==
    /\ ~Consumed(i)
    /\ ~IsVerseReference(approximate_timings[i][1])
    /\ ~IsNumeric(approximate_timings[i][1])

(* C12: expand is total.  For every input sequence, the empty one, one with
   an unclosed "(" and numerals of any digit length included, expand returns
   without raising, and every token that is not part of a merged citation,
   not a verse reference and not a numeral is emitted once with identical
   text, start and end. *)
C12_ExpandTotal ==
    pc # "expand" =>
        /\ raised = "none"
        /\ \A i \in 1..Len(approximate_timings) :
               PlainToken(i) => EmittedUnchanged(i)

(* C13: TimedToken invariant end to end.  For every text and duration, the
   sequence that estimate, expand and correct return in turn has
   non-decreasing start times, its first start is 0 and its last end is
   within 0.01 of the duration. *)
C13_TimedTokenInvariant ==
    (pc = "done" /\ word_timings # <<>>) =>
        /\ \A k \in 1..(Len(word_timings) - 1) :
               RLe(word_timings[k][2], word_timings[k + 1][2])
        /\ word_timings[1][2] = Zero
        /\ RLe(RAbs(RSub(Last(word_timings)[3], duration)), Tolerance)

\* text.strip().lower() with runs of whitespace collapsed
NormalText(t) == Join(Split(Lower(Strip(t))))

\* two settings dicts are equal as mappings
SameMapping(s1, s2) ==
    {s1[k] : k \in 1..Len(s1)} = {s2[k] : k \in 1..Len(s2)}

\* the two calls' arguments are equal up to case, spacing and insertion order
SameFingerprintInputs ==
    /\ NormalText(requests[1].text) = NormalText(requests[2].text)
    /\ Lower(Strip(requests[1].voice_name)) = Lower(Strip(requests[2].voice_name))
    /\ SameMapping(requests[1].settings, requests[2].settings)

(* C15: fingerprint determinism.  Two calls of _get_cache_key of one provider
   with texts equal after trimming, lower-casing and collapsing whitespace,
   voices equal after trimming and lower-casing and settings equal as
   mappings return the same key, whatever the insertion order of the
   settings. *)
C15_FingerprintDeterminism ==
    (/\ requests[1].pc = "keyed"
     /\ requests[2].pc = "keyed"
     /\ SameFingerprintInputs)
        => requests[1].cache_key = requests[2].cache_key

\* both keys are computed for texts and voices that differ in case and
\* spacing and settings inserted in different orders
C15_Witness ==
    /\ requests[1].pc = "keyed"
    /\ requests[2].pc = "keyed"
    /\ SameFingerprintInputs
    /\ requests[1].text # requests[2].text
    /\ requests[1].voice_name # requests[2].voice_name
    /\ requests[1].settings # requests[2].settings
    /\ requests[1].settings # <<>>

\* the timing functions a request has called, in order
TimingCalls(r) ==
    SelectSeq(requests[r].calls,
              LAMBDA c : c \in {"_generate_approximate_word_timings",
                                "_expand_numeric_references",
                                "_fix_reference_order"})

(* C14: pipeline order.  On every ElevenLabs synthesis, the test-key path
   included, the provider method returns word timings made by estimate, then
   expand, then correct, each called once and in that order, on the duration
   it returns. *)
C14_PipelineOrder ==
    \A r \in Requests :
        (provider_name = "elevenlabs" /\ requests[r].pc = "store") =>
            /\ TimingCalls(r) = <<"_generate_approximate_word_timings",
                                  "_expand_numeric_references",
                                  "_fix_reference_order">>
            /\ requests[r].result.word_timings =
                   fix_reference_order(Strip(requests[r].text),
                       expand_numeric_references(
                           generate_approximate_word_timings(Strip(requests[r].text),
                               requests[r].result.duration)).timings)

\* request r is a call of generate_speech that this step starts
Starts(r) == Idle(r) /\ requests'[r] # requests[r]

\* this step is a get of request r for a key whose entry references an audio
\* file that no longer exists
StaleGet(r) ==
    /\ Starts(r)
    /\ requests'[r].calls # <<>>
    /\ requests'[r].cache_key \in DOMAIN cache
    /\ cache[requests'[r].cache_key].path \notin files

\* dict d with exactly the entry of key removed
Without(d, key, after) ==
    /\ DOMAIN after = DOMAIN d \ {key}
    /\ \A k \in DOMAIN after : after[k] = d[k]

(* C16: stale-entry eviction.  After any sequence of puts, gets and
   audio-file deletions, a get for a key whose entry references an audio
   file that no longer exists returns nothing and does not raise, removes
   exactly that entry from the cache in memory and from the persisted file,
   and leaves every other entry unchanged. *)
C16_StaleEntryEvicted ==
    [][\A r \in Requests :
          StaleGet(r) =>
              /\ requests'[r].pc = "synth"
              /\ requests'[r].raised = "none"
              /\ Without(cache, requests'[r].cache_key, cache')
              /\ Without(cache_file, requests'[r].cache_key, cache_file')]_vars

\* a get has just evicted the stale entry of its key, found nothing and left
\* the entry of another key in the cache and in the persisted file
C16_Witness ==
    \E r \in Requests :
        /\ requests[r].pc = "synth"
        /\ requests[r].calls = <<"_get_cached_audio", "_save_cache">>
        /\ requests[r].cache_key \notin DOMAIN cache
        /\ cache # EmptyDict
        /\ cache_file = cache

\* this step is a get of request r for a key that a synthesis request has
\* stored and whose audio file has existed since
FreshGet(r) ==
    /\ Starts(r)
    /\ requests'[r].calls # <<>>
    /\ requests'[r].cache_key \in DOMAIN synthesized

(* C17: a cache hit avoids synthesis.  After a synthesis request has
   succeeded for a key, every later request with the same key, made while
   the audio file still exists, returns the stored path, word timings and
   duration, does not call the provider and changes neither the cache nor
   the persisted file. *)
C17_CacheHitAvoidsSynthesis ==
    [][\A r \in Requests :
          FreshGet(r) =>
              LET cache_key == requests'[r].cache_key
              IN  /\ requests'[r].pc = "returned"
                  /\ requests'[r].calls = <<"_get_cached_audio">>
                  /\ cache_key \in DOMAIN cache
                  /\ requests'[r].result.path = synthesized[cache_key]
                  /\ requests'[r].result.path = cache[cache_key].path
                  /\ requests'[r].result.word_timings = cache[cache_key].word_timings
                  /\ requests'[r].result.duration = cache[cache_key].duration
                  /\ cache' = cache
                  /\ cache_file' = cache_file
                  /\ files' = files]_vars

\* a request for " A " has returned, from the cache alone, the entry that a
\* request for "a" stored
C17_Witness ==
    \E r \in Requests :
        /\ requests[r].pc = "returned"
        /\ requests[r].calls = <<"_get_cached_audio">>
        /\ requests[r].text = <<" ", "A", " ">>
        /\ requests[r].cache_key \in DOMAIN synthesized
        /\ requests[r].result.word_timings # <<>>
        /\ requests[r].result.word_timings[1][1] = <<"a">>

\* this step adds or replaces the entry of key in dict d
Written(d, after, key) ==
    /\ key \in DOMAIN after
    /\ key \notin DOMAIN d \/ after[key] # d[key]

\* this step is the end of a synthesis request for key that completes
\* successfully with the entry it leaves in dict after
CompletesSynthesis(r, key, after) ==
    /\ requests[r].pc = "store"
    /\ requests[r].cache_key = key
    /\ \E k \in 1..Len(requests[r].calls) : requests[r].calls[k] = "provider"
    /\ requests'[r].pc = "returned"
    /\ requests'[r].raised = "none"
    /\ after[key] = [path |-> requests'[r].result.path,
                     word_timings |-> requests'[r].result.word_timings,
                     duration |-> requests'[r].result.duration]

(* C18: cache entries are created only by successful synthesis.  Every entry
   that a step adds to or replaces in the cache or the persisted file is the
   result of a synthesis request for that key which completes successfully
   in that step; no step in which a request fails adds or replaces an
   entry. *)
C18_EntriesFromSuccessfulSynthesis ==
    [][/\ \A key \in DOMAIN cache' :
              Written(cache, cache', key) =>
                  \E r \in Requests : CompletesSynthesis(r, key, cache')
       /\ \A key \in DOMAIN cache_file' :
              Written(cache_file, cache_file', key) =>
                  \E r \in Requests : CompletesSynthesis(r, key, cache_file')
       /\ \A r \in Requests :
              (requests'[r].pc = "raised" /\ requests[r].pc # "raised") =>
                  /\ \A key \in DOMAIN cache' : ~Written(cache, cache', key)
                  /\ \A key \in DOMAIN cache_file' : ~Written(cache_file, cache_file', key)]_vars

\* a request whose provider call failed has ended with TTSError and has no
\* entry, while the cache holds the entry of an earlier successful request
C18_Witness ==
    \E r \in Requests :
        /\ requests[r].pc = "raised"
        /\ \E k \in 1..Len(requests[r].calls) : requests[r].calls[k] = "provider"
        /\ requests[r].cache_key \notin DOMAIN cache
        /\ cache # EmptyDict
        /\ DOMAIN cache = DOMAIN synthesized

(* C19: empty text is rejected immediately.  A call of generate_speech with
   a text without a non-whitespace character raises an error in its first
   step, before any cache lookup, provider call or file write, and leaves
   the cache, the persisted file and the audio files unchanged. *)
C19_EmptyTextRejected ==
    [][\A r \in Requests :
          (Starts(r) /\ Strip(requests'[r].text) = <<>>) =>
              /\ requests'[r].pc = "raised"
              /\ requests'[r].raised # "none"
              /\ requests'[r].calls = <<>>
              /\ cache' = cache
              /\ cache_file' = cache_file
              /\ files' = files]_vars

\* a call with a whitespace-only text has raised without calling anything,
\* while the cache holds an entry
C19_Witness ==
    \E r \in Requests :
        /\ requests[r].pc = "raised"
        /\ requests[r].text = <<" ", " ">>
        /\ requests[r].raised = "TTSError"
        /\ requests[r].calls = <<>>
        /\ cache # EmptyDict
        /\ cache_file = cache

\* request r has ended
Ended(r) == requests[r].pc \in {"returned", "raised"}

(* C20: unified outcome.  Every call of generate_speech with a non-empty
   text that has ended has either returned a result holding an audio path
   and a word-timing sequence, or raised TTSError; no other exception kind
   escapes, whatever the provider method raised. *)
C20_UnifiedOutcome ==
    \A r \in Requests :
        (Ended(r) /\ Strip(requests[r].text) # <<>>) =>
            \/ /\ requests[r].pc = "returned"
               /\ requests[r].raised = "none"
               /\ requests[r].result.path # <<>>
               /\ Len(requests[r].result.word_timings) >= 1
            \/ /\ requests[r].pc = "raised"
               /\ requests[r].raised = "TTSError"
               /\ requests[r].result = NoResult

\* a call on the UnrealSpeech provider has ended with TTSError after the
\* provider was called
C20_Witness ==
    \E r \in Requests :
        /\ provider_name = "unrealspeech"
        /\ requests[r].pc = "raised"
        /\ requests[r].raised = "TTSError"
        /\ \E k \in 1..Len(requests[r].calls) : requests[r].calls[k] = "provider"

\* C21: when the catalog has voices but none named Daniel, every synthesis
\* request is made with the fallback default voice (the first of the sorted
\* voice names), and an ElevenLabs request does not end in an error while its
\* voice is missing from the catalog.
NoDaniel == available_voices # <<>> /\ find_voice(available_voices, Daniel) = <<>>

C21_DefaultVoiceFallback ==
    \A r \in Requests :
        (NoDaniel /\ requests[r].pc \in {"synth", "store", "returned", "raised"}
                  /\ ~is_empty_text(requests[r].text)) =>
            /\ requests[r].voice_name = default_voice(available_voices)
            /\ (provider_name = "elevenlabs" /\ requests[r].pc = "raised") =>
                   find_voice(available_voices, requests[r].voice_name) # <<>>

\* C22: with concurrent requests no fingerprint has two writers: a request
\* writes the cache entry of its fingerprint only while the miss it found
\* still holds (the cache has no entry of that fingerprint with its audio
\* file on disk) and while no other request is synthesizing or writing the
\* same fingerprint.
InFlight(r) == requests[r].pc \in {"synth", "store"}

WritesEntry(r) == requests[r].pc = "store" /\ requests'[r].pc = "returned"

LiveEntry(cache_key) == cache_key \in DOMAIN cache /\ cache[cache_key].path \in files

C22_AtMostOneWriter ==
    [][\A r \in Requests :
          WritesEntry(r) =>
              /\ ~LiveEntry(requests[r].cache_key)
              /\ \A other \in Requests \ {r} :
                     ~(InFlight(other) /\ requests[other].cache_key = requests[r].cache_key)]_vars

\* C23: a call of correct relocates at most one contiguous run of tokens, and
\* that run is the one located for the first citation, in text order, that
\* is detected as misplaced: the output is the input, or the input with that
\* run taken out and put back at one position.
DetectedCitations ==
    LET refs == FindAllCitations(text)
    IN  {r \in 1..Len(refs) :
            detected_misplaced(text, words_of(expanded_timings), refs[r])}

FirstDetectedCitation ==
    FindAllCitations(text)[CHOOSE r \in DetectedCitations :
                               \A m \in DetectedCitations : r <= m]

RunRelocated(input, output, first, last) ==
    LET run == SubSeq(input, first, last)
        rest == SubSeq(input, 1, first - 1) \o SubSeq(input, last + 1, Len(input))
    IN  \E p \in 0..Len(rest) :
            output = SubSeq(rest, 1, p) \o run \o SubSeq(rest, p + 1, Len(rest))

C23_SingleCorrection ==
    (pc = "done" /\ word_timings # expanded_timings) =>
        /\ DetectedCitations # {}
        /\ LET words == words_of(expanded_timings)
               ref_start == find_ref_start(words, FirstDetectedCitation)
               ref_end == find_ref_end(words, ref_start)
           IN  /\ ref_start # -1
               /\ ref_end # -1
               /\ RunRelocated(expanded_timings, word_timings, ref_start + 1, ref_end + 1)

\* C24: the output of correct is a permutation of its input: the same length
\* and the same number of occurrences of every (text, start, end) tuple; one
\* run of the input keeps its internal order and the tokens outside it keep
\* their relative order.
Occurrences(s, x) == Cardinality({k \in 1..Len(s) : s[k] = x})

SameTokens(input, output) ==
    /\ Len(output) = Len(input)
    /\ \A k \in 1..Len(input) :
           Occurrences(output, input[k]) = Occurrences(input, input[k])

C24_CorrectionPermutes ==
    pc = "done" =>
        /\ SameTokens(expanded_timings, word_timings)
        /\ \/ word_timings = expanded_timings
           \/ \E first \in 1..Len(expanded_timings) :
                  \E last \in first..Len(expanded_timings) :
                      RunRelocated(expanded_timings, word_timings, first, last)

C24_Witness ==
    /\ pc = "done"
    /\ word_timings # expanded_timings
    /\ Len(expanded_timings) >= 4
    /\ \E k \in 1..Len(expanded_timings) : word_timings[k] = expanded_timings[k]

\* C25: the tokens estimate returns are the whitespace-split words of the
\* text in order, and their durations are proportional to their weights:
\* clamp(0.5, 4.0, 3 * len / 5) for a verse reference, clamp(0.5, 3.0,
\* 2 * len / 5) for a standalone numeral, clamp(0.5, 2.0, len / 5) otherwise;
\* for any two tokens i and j, duration_i * weight_j = duration_j * weight_i.
Weight(word) ==
    IF IsVerseReference(word)
    THEN RMax(Rat(1, 2), RMin(RInt(4), Rat(3 * Len(word), 5)))
    ELSE IF IsNumeric(word)
    THEN RMax(Rat(1, 2), RMin(RInt(3), Rat(2 * Len(word), 5)))
    ELSE RMax(Rat(1, 2), RMin(RInt(2), Rat(Len(word), 5)))

TokenDuration(timings, i) == RSub(timings[i][3], timings[i][2])

DownScaled ==
    LET words == Split(text)
    IN  /\ special_case_indices(words) # {}
        /\ Len(words) > Cardinality(special_case_indices(words))
        /\ RLt(duration, RSum(initial_durations(words, duration)))

C25_WeightProportional ==
    pc # "estimate" =>
        LET words == Split(text)
        IN  /\ Len(approximate_timings) = Len(words)
            /\ \A i \in 1..Len(words) : approximate_timings[i][1] = words[i]
            /\ \A i, j \in 1..Len(words) :
                   RMul(TokenDuration(approximate_timings, i), Weight(words[j]))
                     = RMul(TokenDuration(approximate_timings, j), Weight(words[i]))

\* estimate has run on a verse reference, a numeral and a regular word whose
\* first-pass durations exceeded the duration and were scaled down
C25_Witness ==
    /\ pc = "expand"
    /\ DownScaled
    /\ \E i, j, k \in 1..Len(Split(text)) :
           /\ IsVerseReference(Split(text)[i])
           /\ IsNumeric(Split(text)[j])
           /\ ~IsVerseReference(Split(text)[k]) /\ ~IsNumeric(Split(text)[k])

\* C26: requests that are not served from the cache write their audio to
\* distinct paths, so that no two cache entries of different fingerprints
\* reference the same audio path.
C26_UniqueAudioPath ==
    \A k1, k2 \in DOMAIN cache :
        k1 # k2 => cache[k1].path # cache[k2].path

\* C27: outside test mode each requested image causes at most 3 backend
\* calls, no attempt follows the one that yielded a verified image, every
\* attempt made, failed or not, counts as one, the whole call makes at most
\* 3 * num_outputs backend calls, and the call ends.
RECURSIVE TotalCalls(_)
TotalCalls(log) == IF log = <<>> THEN 0 ELSE Len(Head(log)) + TotalCalls(Tail(log))

GenerationEnded == gemini.pc \in {"returned", "raised"}

BoundedRetries ==
    ~gemini.is_test_mode =>
        /\ Len(gemini.log) <= gemini.num_outputs
        /\ \A k \in 1..Len(gemini.log) :
               /\ Len(gemini.log[k]) <= 3
               /\ \A a \in 1..Len(gemini.log[k]) :
                      gemini.log[k][a] = "verified" => a = Len(gemini.log[k])
        /\ gemini.pc = "while" => gemini.attempts = Len(gemini.log[gemini.i])
        /\ TotalCalls(gemini.log) <= 3 * gemini.num_outputs

C27_BoundedImageRetries == []BoundedRetries /\ <>GenerationEnded

\* the call has ended after an image that was verified at its third attempt
\* and an image whose three attempts failed
C27_Witness ==
    /\ GenerationEnded
    /\ ~gemini.is_test_mode
    /\ \E k, m \in 1..Len(gemini.log) :
           /\ Len(gemini.log[k]) = 3 /\ gemini.log[k][3] = "verified"
           /\ Len(gemini.log[m]) = 3 /\ gemini.log[m][3] # "verified"

\* C28: for num_outputs >= 1 the call never returns an empty list.  In test
\* mode it returns exactly num_outputs paths.  Otherwise, if an image was
\* verified, it returns the 1 to num_outputs paths of the verified images;
\* if every attempt for every image failed, it returns the default
\* placeholder path alone if that file exists and raises
\* MediaGenerationError if not.
AnyVerified ==
    \E k \in 1..Len(gemini.log) : \E a \in 1..Len(gemini.log[k]) :
        gemini.log[k][a] = "verified"

C28_NeverEmptyResult ==
    (gemini.num_outputs >= 1 /\ GenerationEnded) =>
        /\ gemini.pc = "returned" => gemini.returned # <<>>
        /\ gemini.is_test_mode =>
               gemini.pc = "returned" /\ Len(gemini.returned) = gemini.num_outputs
        /\ (~gemini.is_test_mode /\ AnyVerified) =>
               /\ gemini.pc = "returned"
               /\ Len(gemini.returned) \in 1..gemini.num_outputs
               /\ \A n \in 1..Len(gemini.returned) :
                      /\ gemini.returned[n][1] = "gemini"
                      /\ gemini.log[gemini.returned[n][2]][gemini.returned[n][3]] = "verified"
        /\ (~gemini.is_test_mode /\ ~AnyVerified) =>
               IF gemini.default_placeholder
               THEN gemini.pc = "returned" /\ gemini.returned = <<DefaultPlaceholder>>
               ELSE gemini.pc = "raised" /\ gemini.raised = "MediaGenerationError"

\* two images were requested, all six attempts failed and the default
\* placeholder was returned
C28_Witness ==
    /\ gemini.pc = "returned"
    /\ ~gemini.is_test_mode
    /\ gemini.num_outputs = 2
    /\ TotalCalls(gemini.log) = 6
    /\ ~AnyVerified
    /\ gemini.returned = <<DefaultPlaceholder>>

====
